---- MODULE Spec2Model ----
(***************************************************************************)
(* Query-resolution pipeline of the text-to-SQL service: the prompt        *)
(* handler (follow-up check, identifier validation, database connection,   *)
(* semantic-cache lookup and admission, schema retrieval, SQL generation,  *)
(* execution, description, cache write) with the cache store it shares     *)
(* between requests.                                                       *)
(*                                                                         *)
(* Conventions.  Similarities and distances are integers: distances in     *)
(* thousandths, rounded scores in hundredths.  Python values whose type    *)
(* varies at run time are tagged records (PyStr, PyList, ...).  A SHA-256  *)
(* digest is identified with the text it digests (no collisions).          *)
(***************************************************************************)
EXTENDS Integers, Sequences, FiniteSets, TLC

-----------------------------------------------------------------------------
(* Bounds of the model *)

\* number of requests one behaviour serves
MaxRequests == 3
\* last instant of the clock, in seconds
MaxTime == 600
\* seconds the clock advances in one Tick
TickSeconds == 300
\* longest reply to the follow-up classification that is parsed, in tokens
MaxFollowUpLen == 5
\* longest reply to the SQL request that is parsed, in tokens
MaxSqlLen == 6
\* most rows of the embeddings table that a retrieval ranks
MaxRows == 5
\* longest identifier drawn from the alphabet, in characters
MaxNameLen == 4
\* longest vector drawn from the float values, in elements
MaxVectorLen == 4
MaxColumns == 2
MaxResultRows == 2
MaxMessages == 12

-----------------------------------------------------------------------------
(* Program constants *)

\* prompt_handler.py: VECTOR_SCORE_THRESHOLD = 0.85, in hundredths
VECTOR_SCORE_THRESHOLD == 85
\* cache.py search: query_params radius 0.8, in thousandths
RADIUS == 800
\* cache.py search: top_k default
TOP_K == 20
\* cache.py add: timedelta(minutes=10), in seconds
EXPIRATION_TIME == 600
\* postgres_validation.py: maximum identifier length in bytes
MAX_IDENTIFIER_BYTES == 63
MAX_CONTEXT_LENGTH == 5
MAX_PAYLOAD_SIZE == 5 * 1024 * 1024

-----------------------------------------------------------------------------
(* Python values *)

PyNone == [t |-> "None"]
PyStr(s) == [t |-> "str", v |-> s]
PyList(q) == [t |-> "list", v |-> q]
PyTuple(q) == [t |-> "tuple", v |-> q]
PyDict(r) == [t |-> "dict", v |-> r]
\* the str holding the JSON text of the list q (its first character is "[")
PyJsonStr(q) == [t |-> "json_str", v |-> q]
\* the str holding the Python repr of x, as str(x) builds it
PyRepr(x) == [t |-> "repr_str", v |-> x]
\* the str naming a key of the cache store
PyKey(k) == [t |-> "key", v |-> k]

\* bool(x) of a Python value
Truthy(x) ==
    CASE x.t = "None" -> FALSE
      [] x.t = "str" -> x.v # ""
      [] x.t = "list" -> x.v # <<>>
      [] x.t = "tuple" -> x.v # <<>>
      [] x.t = "dict" -> DOMAIN x.v # {}
      [] OTHER -> TRUE

\* json.dumps of a list or tuple: both serialise to a JSON array
JsonDumps(x) == PyJsonStr(x.v)

\* json.loads of a str: a JSON array gives a list; any other text raises
\* JSONDecodeError, reported as PyNone here and handled by the caller
JsonLoads(s) == IF s.t = "json_str" THEN PyList(s.v) ELSE PyNone

\* s.startswith("[") of a str
StartsWithBracket(s) == s.t = "json_str"

-----------------------------------------------------------------------------
(* Identifier validation: util/postgres_validation.py *)

LowerLetters ==
    <<"a","b","c","d","e","f","g","h","i","j","k","l","m",
      "n","o","p","q","r","s","t","u","v","w","x","y","z">>
UpperLetters ==
    <<"A","B","C","D","E","F","G","H","I","J","K","L","M",
      "N","O","P","Q","R","S","T","U","V","W","X","Y","Z">>
Digits == {"0","1","2","3","4","5","6","7","8","9"}
Range(q) == {q[i] : i \in DOMAIN q}
Letters == Range(LowerLetters) \cup Range(UpperLetters)

\* str.lower() of one character, then of a string (a sequence of characters)
LowerChar(c) ==
    IF c \in Range(UpperLetters)
    THEN LowerLetters[CHOOSE i \in DOMAIN UpperLetters : UpperLetters[i] = c]
    ELSE c
Lower(name) == [i \in DOMAIN name |-> LowerChar(name[i])]

\* len(c.encode("utf-8")) of one character, then of a string
Utf8Width(c) == IF c \in {"é", "ñ"} THEN 2 ELSE 1
RECURSIVE Utf8Len(_)
Utf8Len(name) ==
    IF name = <<>> THEN 0 ELSE Utf8Width(Head(name)) + Utf8Len(Tail(name))

POSTGRES_RESERVED_WORDS ==
    {
      <<"a","l","l">>,
      <<"a","n","a","l","y","s","e">>,
      <<"a","n","a","l","y","z","e">>,
      <<"a","n","d">>,
      <<"a","n","y">>,
      <<"a","r","r","a","y">>,
      <<"a","s">>,
      <<"a","s","c">>,
      <<"a","s","y","m","m","e","t","r","i","c">>,
      <<"a","u","t","h","o","r","i","z","a","t","i","o","n">>,
      <<"b","i","n","a","r","y">>,
      <<"b","o","t","h">>,
      <<"c","a","s","e">>,
      <<"c","a","s","t">>,
      <<"c","h","e","c","k">>,
      <<"c","o","l","l","a","t","e">>,
      <<"c","o","l","l","a","t","i","o","n">>,
      <<"c","o","l","u","m","n">>,
      <<"c","o","n","c","u","r","r","e","n","t","l","y">>,
      <<"c","o","n","s","t","r","a","i","n","t">>,
      <<"c","r","e","a","t","e">>,
      <<"c","r","o","s","s">>,
      <<"c","u","r","r","e","n","t","_","c","a","t","a","l","o","g">>,
      <<"c","u","r","r","e","n","t","_","d","a","t","e">>,
      <<"c","u","r","r","e","n","t","_","r","o","l","e">>,
      <<"c","u","r","r","e","n","t","_","s","c","h","e","m","a">>,
      <<"c","u","r","r","e","n","t","_","t","i","m","e">>,
      <<"c","u","r","r","e","n","t","_","t","i","m","e","s","t","a","m","p">>,
      <<"c","u","r","r","e","n","t","_","u","s","e","r">>,
      <<"d","e","f","a","u","l","t">>,
      <<"d","e","f","e","r","r","a","b","l","e">>,
      <<"d","e","s","c">>,
      <<"d","i","s","t","i","n","c","t">>,
      <<"d","o">>,
      <<"e","l","s","e">>,
      <<"e","n","d">>,
      <<"e","x","c","e","p","t">>,
      <<"f","a","l","s","e">>,
      <<"f","e","t","c","h">>,
      <<"f","o","r">>,
      <<"f","o","r","e","i","g","n">>,
      <<"f","r","e","e","z","e">>,
      <<"f","r","o","m">>,
      <<"f","u","l","l">>,
      <<"g","r","a","n","t">>,
      <<"g","r","o","u","p">>,
      <<"h","a","v","i","n","g">>,
      <<"i","l","i","k","e">>,
      <<"i","n">>,
      <<"i","n","i","t","i","a","l","l","y">>,
      <<"i","n","n","e","r">>,
      <<"i","n","t","e","r","s","e","c","t">>,
      <<"i","n","t","o">>,
      <<"i","s">>,
      <<"i","s","n","u","l","l">>,
      <<"j","o","i","n">>,
      <<"l","a","t","e","r","a","l">>,
      <<"l","e","a","d","i","n","g">>,
      <<"l","e","f","t">>,
      <<"l","i","k","e">>,
      <<"l","i","m","i","t">>,
      <<"l","o","c","a","l","t","i","m","e">>,
      <<"l","o","c","a","l","t","i","m","e","s","t","a","m","p">>,
      <<"n","a","t","u","r","a","l">>,
      <<"n","o","t">>,
      <<"n","o","t","n","u","l","l">>,
      <<"n","u","l","l">>,
      <<"o","f","f","s","e","t">>,
      <<"o","n">>,
      <<"o","n","l","y">>,
      <<"o","r">>,
      <<"o","r","d","e","r">>,
      <<"o","u","t","e","r">>,
      <<"o","v","e","r","l","a","p","s">>,
      <<"p","l","a","c","i","n","g">>,
      <<"p","r","i","m","a","r","y">>,
      <<"r","e","f","e","r","e","n","c","e","s">>,
      <<"r","e","t","u","r","n","i","n","g">>,
      <<"r","i","g","h","t">>,
      <<"s","e","l","e","c","t">>,
      <<"s","e","s","s","i","o","n","_","u","s","e","r">>,
      <<"s","i","m","i","l","a","r">>,
      <<"s","o","m","e">>,
      <<"s","y","m","m","e","t","r","i","c">>,
      <<"s","y","s","t","e","m","_","u","s","e","r">>,
      <<"t","a","b","l","e">>,
      <<"t","a","b","l","e","s","a","m","p","l","e">>,
      <<"t","h","e","n">>,
      <<"t","o">>,
      <<"t","r","a","i","l","i","n","g">>,
      <<"t","r","u","e">>,
      <<"u","n","i","o","n">>,
      <<"u","n","i","q","u","e">>,
      <<"u","s","e","r">>,
      <<"u","s","i","n","g">>,
      <<"v","a","r","i","a","d","i","c">>,
      <<"v","e","r","b","o","s","e">>,
      <<"w","h","e","n">>,
      <<"w","h","e","r","e">>,
      <<"w","i","n","d","o","w">>,
      <<"w","i","t","h">>
    }

\* re.match(r"^(?!pg_)[a-zA-Z_][a-zA-Z0-9_$]*$", name): "$" matches at the end
\* of the string and also just before a newline that ends the string
MatchesBody(core) ==
    /\ Len(core) >= 1
    /\ ~(Len(core) >= 3 /\ SubSeq(core, 1, 3) = <<"p","g","_">>)
    /\ core[1] \in Letters \cup {"_"}
    /\ \A i \in 2..Len(core) : core[i] \in Letters \cup Digits \cup {"_", "$"}
MatchesPattern(name) ==
    \/ MatchesBody(name)
    \/ /\ Len(name) >= 1
       /\ name[Len(name)] = "\n"
       /\ MatchesBody(SubSeq(name, 1, Len(name) - 1))

is_valid_postgres_identifier(name) ==
    IF ~MatchesPattern(name) THEN FALSE
    ELSE IF Utf8Len(name) > MAX_IDENTIFIER_BYTES THEN FALSE
    ELSE IF Lower(name) \in POSTGRES_RESERVED_WORDS THEN FALSE
    ELSE TRUE

\* values the deployment may configure for DB_NAME and DB_SCHEMA
NamePostgres == <<"p","o","s","t","g","r","e","s">>
NamePublic == <<"p","u","b","l","i","c">>
Name123bad == <<"1","2","3","b","a","d">>
NameSelect == <<"S","e","l","e","c","t">>
DbNames == {NamePostgres, Name123bad}
SchemaNames == {NamePublic, NameSelect}

-----------------------------------------------------------------------------
(* Inputs of a request and replies of the external services *)

Prompts == {"p1", "p2", "p3"}
\* event['conversation_context']: absent or empty, or a recent window of turns
Contexts == {<<>>, <<[role |-> "human", content |-> "c1"]>>}

\* points of the embedding space, and the cosine distance between two of
\* them in thousandths: 0 and 154 are 0.846 similar, 154 and 900 are 0.254
\* similar, 0 and 900 lie outside each other's search radius
Embeddings == {0, 154, 900}
Dist(a, b) == IF a >= b THEN a - b ELSE b - a

\* A text of the generation model is a sequence of tokens, with white space
\* between them.  Tokens of a reply to the follow-up classification: a code
\* fence (with or without the json tag), the braces, the members of a JSON
\* object (the comma that separates two members goes with them), the JSON
\* literal null and a word of prose
Fence == "[fence]"
OpenBrace == "{"
CloseBrace == "}"
KeyTrue == "\"is_follow_up\": true"
KeyFalse == "\"is_follow_up\": false"
AnswerMember == "\"answer\": \"a1\""
AnswerNull == "\"answer\": null"
JsonNull == "null"
Prose == "text"
FollowUpTokens ==
    {Fence, OpenBrace, CloseBrace, KeyTrue, KeyFalse, AnswerMember, JsonNull, Prose}

\* tokens of a reply to the SQL request: the tags, two SQL texts and a Python
\* list literal
SqlOpen == "<sql>"
SqlClose == "</sql>"
ParamsOpen == "<params>"
ParamsClose == "</params>"
ListLiteral == "['x']"
SqlTokens ==
    {SqlOpen, SqlClose, ParamsOpen, ParamsClose, "SELECT 1", "SELECT 2", ListLiteral}

\* the texts of at most n tokens
Texts(tokens, n) == UNION {[1..m -> tokens] : m \in 0..n}

\* texts the generation model returns to the follow-up classification of the
\* prompt handler's requests: a fenced object, a bare object after a word of
\* prose, prose, and the JSON literal null
FollowUpTexts ==
    { <<Fence, OpenBrace, KeyTrue, AnswerMember, CloseBrace, Fence>>,
      <<Prose, OpenBrace, KeyFalse, AnswerNull, CloseBrace>>,
      <<Prose>>,
      <<JsonNull>> }

\* texts the generation model returns to the SQL request of the prompt
\* handler's requests: one without a <sql> block, one with two <sql> blocks
\* and a <params> block
SqlTexts ==
    { <<"SELECT 1">>,
      <<SqlOpen, "SELECT 1", SqlClose, SqlOpen, "SELECT 2", SqlClose,
        ParamsOpen, ListLiteral, ParamsClose>> }

\* texts the generation model may return to the description request
DescriptionTexts == {"answer", ""}

\* schema context found by the schema retrieval
SchemaTexts == {"table t1"}

Raised(e) == [kind |-> "raise", error |-> e]
Returned(v) == [kind |-> "return", value |-> v]
NoOutcome == [kind |-> "none"]

JsonHeaders == "Content-Type" :> "application/json"

-----------------------------------------------------------------------------
(* State *)

VARIABLES
    RDS_DATABASE_NAME,      \* configured DB_NAME
    RDS_SCHEMA,             \* configured DB_SCHEMA
    valkey_client,          \* cache.valkey_client of the process
    db_secret,              \* pg.db_secret of the process
    store,                  \* the cache store: key -> hash entry
    now,                    \* the store's clock, in seconds
    reqCount,               \* requests received so far
    pc,                     \* position of the handler
    event,                  \* the request being served
    follow_up_check,        \* the classification of the request, once made
    t2sql_conn,             \* the database connection of the request
    embeddings_for_prompt,
    failed,                 \* calls of this request that met an error
    cache_lookup,
    cache_entry,
    scehma_context_text,
    sql,
    sql_result,             \* (sql_response, column_names)
    response,               \* describe_results_from_query's response
    outcome,                \* what the handler returns or raises
    calls,                  \* calls the handler made in this request, in order
    writers,                \* concurrent requests racing on one prompt
    commands,               \* store commands the racing requests issued, in order
    embeddings_table,       \* committed rows of the embeddings table
    runs,                   \* indexer runs
    retrieval,              \* a call of compare_embeddings and its result
    reply_text,             \* a text returned by the generation model
    parsed,                 \* what a parsing function made of reply_text
    function_input,         \* the argument of a utility function
    function_output,        \* what the function returned for it
    messages,               \* st.session_state.messages of the chat client
    session_context,        \* st.session_state.conversation_context
    payload                 \* the last request the chat client has sent

config == <<RDS_DATABASE_NAME, RDS_SCHEMA>>
process == <<valkey_client, db_secret>>
locals == <<follow_up_check, embeddings_for_prompt, cache_lookup, cache_entry,
            scehma_context_text, sql, sql_result, response>>
\* the variables of one request of the prompt handler
request == <<reqCount, pc, event, t2sql_conn, locals, failed, outcome, calls>>
vars == <<RDS_DATABASE_NAME, RDS_SCHEMA, valkey_client, db_secret, store, now,
          reqCount, pc, event, follow_up_check, t2sql_conn, embeddings_for_prompt, failed,
          cache_lookup, cache_entry, scehma_context_text, sql, sql_result, response, outcome,
          calls, writers, commands, embeddings_table, runs, retrieval, reply_text, parsed,
          function_input, function_output, messages, session_context, payload>>
\* the variables of the concurrent cache writes, of the schema index and of
\* the reply parsing, which the sequential prompt handler leaves alone
racing == <<writers, commands>>
indexing == <<embeddings_table, runs>>
parsing == <<reply_text, parsed>>
applying == <<function_input, function_output>>
session == <<messages, session_context, payload>>
aside == <<racing, indexing, retrieval, parsing, applying, session>>

-----------------------------------------------------------------------------
(* Cache service: services/cache.py *)

\* the f"{prefix}:{sha256(key)}" key
HashKey(prefix, key) == <<prefix, key>>
Keys == {HashKey("cache", p) : p \in Prompts}

NoEntry == [t |-> "absent"]
NoExpiry == -1

\* a key the store still holds at instant t
Live(st, t, k) ==
    /\ st[k] # NoEntry
    /\ (st[k].expireAt = NoExpiry \/ t < st[k].expireAt)

\* round(1 - float(doc.score), 2) in hundredths; a similarity halfway between
\* two hundredths goes either way, depending on its binary representation
RoundedScores(d) ==
    LET s == 1000 - d
    IN IF s % 10 = 5 THEN {s \div 10, s \div 10 + 1} ELSE {(s + 5) \div 10}

DocDict(k, e, score) ==
    [id |-> PyKey(k),
     sql_statement |-> e.sql_statement,
     text_response |-> e.text_response,
     query_results |-> e.query_results,
     prompt_text |-> e.prompt_text,
     schema_text |-> e.schema_text,
     column_names |-> e.column_names,
     vector_score |-> score]

Min(a, b) == IF a <= b THEN a ELSE b
Max(S) == CHOOSE x \in S : \A y \in S : y <= x

\* results search(vector) may return: the live entries within the radius,
\* nearest first (entries at the same distance in either order), cut to top_k
SearchResults(st, t, vector, top_k) ==
    LET found == {k \in DOMAIN st : Live(st, t, k) /\ Dist(vector, st[k].vector) <= RADIUS}
        n == Cardinality(found)
        d(k) == Dist(vector, st[k].vector)
        orders == {q \in [1..n -> found] :
                      /\ \A i, j \in 1..n : i # j => q[i] # q[j]
                      /\ \A i, j \in 1..n : i < j => d(q[i]) <= d(q[j])}
        scores == {f \in [found -> UNION {RoundedScores(d(k)) : k \in found}] :
                      \A k \in found : f[k] \in RoundedScores(d(k))}
    IN {[i \in 1..Min(n, top_k) |-> DocDict(q[i], st[q[i]], f[q[i]])] :
           q \in orders, f \in scores}

\* the hash mapping add() builds from its data
Mapping(vector, data) ==
    [vector |-> vector,
     sql_statement |-> IF data.sql_statement.t \in {"list", "tuple"}
                       THEN JsonDumps(data.sql_statement)
                       ELSE data.sql_statement,
     text_response |-> data.text_response,
     query_results |-> IF data.query_results.t \notin {"str", "json_str", "repr_str"}
                       THEN PyRepr(data.query_results)
                       ELSE data.query_results,
     schema_text |-> data.schema_text,
     prompt_text |-> data.prompt_text,
     column_names |-> IF data.column_names.t \notin {"str", "json_str", "repr_str"}
                      THEN JsonDumps(data.column_names)
                      ELSE data.column_names]

\* an hset that writes nothing over a key the store still holds
HSetIfAbsent(st, t, k, mapping) ==
    IF Live(st, t, k) THEN st
    ELSE [st EXCEPT ![k] =
            [f \in DOMAIN mapping \cup {"expireAt"} |->
                IF f = "expireAt" THEN NoExpiry ELSE mapping[f]]]

\* an hset that leaves the answer of a key the store still holds in place
HSetKeepsAnswer(st, t, k, mapping) ==
    [st EXCEPT ![k] =
        [f \in DOMAIN mapping \cup {"expireAt"} |->
            IF f = "expireAt"
            THEN IF Live(st, t, k) THEN st[k].expireAt ELSE NoExpiry
            ELSE IF f = "text_response" /\ Live(st, t, k) THEN st[k].text_response
            ELSE mapping[f]]]

\* hset(key, mapping): the fields are written; a key the store still holds
\* keeps its expiry, a new key has none
HSet(st, t, k, mapping) ==
    [st EXCEPT ![k] =
        [f \in DOMAIN mapping \cup {"expireAt"} |->
            IF f = "expireAt"
            THEN IF Live(st, t, k) THEN st[k].expireAt ELSE NoExpiry
            ELSE mapping[f]]]

\* expire(key, timedelta(minutes=10))
Expire(st, t, k) ==
    IF Live(st, t, k) THEN [st EXCEPT ![k].expireAt = t + EXPIRATION_TIME] ELSE st

\* an add that writes whatever answer it is given
CacheAddUnchecked(st, t, key, vector, data, prefix, reply) ==
    LET k == HashKey(prefix, key)
        mapping == Mapping(vector, data)
    IN IF reply = "hset_error" THEN [ret |-> FALSE, store |-> st]
       ELSE IF reply = "expire_error"
            THEN [ret |-> FALSE, store |-> HSet(st, t, k, mapping)]
       ELSE [ret |-> TRUE, store |-> Expire(HSet(st, t, k, mapping), t, k)]

\* add(key, vector, data, prefix) with the store answering as `reply`:
\* the value returned and the store left behind
CacheAdd(st, t, key, vector, data, prefix, reply) ==
    LET k == HashKey(prefix, key)
        mapping == Mapping(vector, data)
    IN IF ~Truthy(data.text_response) THEN [ret |-> FALSE, store |-> st]
       ELSE IF reply = "hset_error" THEN [ret |-> FALSE, store |-> st]
       ELSE IF reply = "expire_error"
            THEN [ret |-> FALSE, store |-> HSet(st, t, k, mapping)]
       ELSE [ret |-> TRUE, store |-> Expire(HSet(st, t, k, mapping), t, k)]
StoreReplies == {"ok", "hset_error", "expire_error"}

-----------------------------------------------------------------------------
(* Text-to-SQL service: services/text_to_sql.py *)

IsKey(token) == token \in {KeyTrue, KeyFalse}
IsMember(token) == token \in {KeyTrue, KeyFalse, AnswerMember, AnswerNull}
MinOf(S) == CHOOSE x \in S : \A y \in S : x <= y

\* json.loads of a text: the literal null gives None, an object gives a dict
\* with the keys of its members (the last member of a key wins); any other
\* text raises
ParseJson(text) ==
    LET n == Len(text)
        keys == {i \in 2..n-1 : IsKey(text[i])}
        answers == {i \in 2..n-1 : text[i] \in {AnswerMember, AnswerNull}}
        names == (IF keys # {} THEN {"is_follow_up"} ELSE {})
                 \cup (IF answers # {} THEN {"answer"} ELSE {})
    IN IF text = <<JsonNull>> THEN [ok |-> TRUE, value |-> PyNone]
       ELSE IF /\ n >= 2
               /\ text[1] = OpenBrace
               /\ text[n] = CloseBrace
               /\ \A i \in 2..n-1 : IsMember(text[i])
       THEN [ok |-> TRUE,
             value |-> [name \in names |->
                          IF name = "is_follow_up"
                          THEN text[Max(keys)] = KeyTrue
                          ELSE IF text[Max(answers)] = AnswerMember
                               THEN PyStr("a1") ELSE PyNone]]
       ELSE [ok |-> FALSE, value |-> PyNone]

\* line 293: re.search(r'```(?:json)?\s*({\s*"is_follow_up".*?})\s*```'):
\* the leftmost fence followed by a brace and the key, up to the first
\* closing brace that a fence follows
FencedJson(text) ==
    LET n == Len(text)
        closes(i) == {j \in i+3..n-1 : text[j] = CloseBrace /\ text[j+1] = Fence}
        starts == {i \in 1..n-2 : /\ text[i] = Fence
                                  /\ text[i+1] = OpenBrace
                                  /\ IsKey(text[i+2])
                                  /\ closes(i) # {}}
    IN IF starts = {} THEN [found |-> FALSE, group |-> <<>>]
       ELSE [found |-> TRUE,
             group |-> SubSeq(text, MinOf(starts) + 1, MinOf(closes(MinOf(starts))))]

\* line 298: re.search(r'({[\s\S]*?"is_follow_up"[\s\S]*?})'): the leftmost
\* brace with the key somewhere after it, up to the first closing brace
\* after the first such key
BareJson(text) ==
    LET n == Len(text)
        keysAfter(i) == {k \in i+1..n : IsKey(text[k])}
        closesAfter(k) == {j \in k+1..n : text[j] = CloseBrace}
        starts == {i \in 1..n : /\ text[i] = OpenBrace
                                /\ \E k \in keysAfter(i) : closesAfter(k) # {}}
    IN IF starts = {} THEN [found |-> FALSE, group |-> <<>>]
       ELSE LET i == MinOf(starts)
                k == MinOf(keysAfter(i))
            IN [found |-> TRUE, group |-> SubSeq(text, i, MinOf(closesAfter(k)))]

\* lines 291-305: whatever json.loads makes of the text the two searches
\* picked, or of the whole reply when neither matched; an exception fails
\* open to "not a follow-up"
check_if_follow_up_question(text) ==
    LET json_str == IF FencedJson(text).found THEN FencedJson(text).group
                    ELSE IF BareJson(text).found THEN BareJson(text).group
                    ELSE text
        result == ParseJson(json_str)
    IN IF result.ok THEN result.value
       ELSE [is_follow_up |-> FALSE, answer |-> PyNone]

NoSqlMessage == "Unable to generate SQL for the provided prompt, please try again."
NoSqlResponse ==
    [statusCode |-> 500, body |-> [response |-> PyStr(NoSqlMessage)], headers |-> JsonHeaders]

\* the text a sequence of tokens spells
RECURSIVE JoinTokens(_)
JoinTokens(q) == IF q = <<>> THEN "" ELSE q[1] \o JoinTokens(Tail(q))

\* regex.findall(r"<open>(.*?)</open>", re.DOTALL): the contents of the
\* blocks, from the left, each closed by the first closing tag after its
\* opening tag
RECURSIVE FindAll(_, _, _)
FindAll(text, open, close) ==
    LET n == Len(text)
        starts == {i \in 1..n : text[i] = open /\ \E j \in i+1..n : text[j] = close}
    IN IF starts = {} THEN <<>>
       ELSE LET i == MinOf(starts)
                j == MinOf({x \in i+1..n : text[x] = close})
            IN <<SubSeq(text, i + 1, j - 1)>> \o FindAll(SubSeq(text, j + 1, n), open, close)

\* ast.literal_eval of the content of a <params> block: the list literal
\* evaluates, anything else raises
LiteralEval(content) ==
    IF content = <<ListLiteral>> THEN [ok |-> TRUE, value |-> PyList(<<"x">>)]
    ELSE [ok |-> FALSE, value |-> PyNone]

\* a get_sql_from_bedrock that returns the last <sql> block
get_last_sql_from_bedrock(text) ==
    LET sql_statements == FindAll(text, SqlOpen, SqlClose)
        params_match == FindAll(text, ParamsOpen, ParamsClose)
        params == IF params_match # <<>> /\ LiteralEval(params_match[1]).ok
                  THEN LiteralEval(params_match[1]).value
                  ELSE PyList(<<>>)
    IN IF sql_statements = <<>> THEN PyDict(NoSqlResponse)
       ELSE PyTuple(<<PyStr(JoinTokens(sql_statements[Len(sql_statements)])), params>>)

\* get_sql_from_bedrock: the first <sql> block with the parameters of the first
\* <params> block, or the error response when the reply has no <sql> block
get_sql_from_bedrock(text) ==
    LET sql_statements == FindAll(text, SqlOpen, SqlClose)
        params_match == FindAll(text, ParamsOpen, ParamsClose)
        params == IF params_match # <<>> /\ LiteralEval(params_match[1]).ok
                  THEN LiteralEval(params_match[1]).value
                  ELSE PyList(<<>>)
    IN IF sql_statements = <<>> THEN PyDict(NoSqlResponse)
       ELSE PyTuple(<<PyStr(JoinTokens(sql_statements[1])), params>>)

\* what the database answers to one execute: an error, a result set, or no
\* result set (cursor.description is None)
ExecuteReplies == {"error", "rows"}
\* execute_sql returns (results, column_names)
ExecuteResult(reply) ==
    IF reply = "rows"
    THEN [results |-> PyList(<<"row1">>), column_names |-> PyList(<<"c1">>)]
    ELSE [results |-> PyList(<<>>), column_names |-> PyList(<<>>)]

describe_results_from_query(sql_statements, results_tuple, text_content) ==
    [statusCode |-> 200,
     body |-> [response |-> PyStr(text_content),
               query |-> sql_statements,
               query_results |-> results_tuple.results,
               column_names |-> results_tuple.column_names,
               cache_id |-> PyNone],
     headers |-> JsonHeaders]

-----------------------------------------------------------------------------
(* Prompt handler: prompt_handler.py lambda_handler *)

FollowUpSentinel == "Follow-up question answered directly"
\* a follow-up response with the answer and the sentinel in each other's field
FollowUpResponseSwapped(check) ==
    [statusCode |-> 200,
     body |-> [response |-> PyStr(FollowUpSentinel),
               query |-> check.answer,
               query_results |-> PyList(<<>>),
               cache_id |-> PyNone],
     headers |-> JsonHeaders]

FollowUpResponse(check) ==
    [statusCode |-> 200,
     body |-> [response |-> check.answer,
               query |-> PyStr(FollowUpSentinel),
               query_results |-> PyList(<<>>),
               cache_id |-> PyNone],
     headers |-> JsonHeaders]

\* an admission that tests the threshold before the exact match
AdmitThresholdFirst(lookup, prompt) ==
    LET exact == {i \in DOMAIN lookup : lookup[i].prompt_text = prompt}
    IN IF lookup # <<>> /\ lookup[1].vector_score >= VECTOR_SCORE_THRESHOLD
       THEN [cache_hit |-> TRUE, cache_entry |-> lookup[1]]
       ELSE IF exact # {}
       THEN [cache_hit |-> TRUE, cache_entry |-> lookup[Max(exact)]]
       ELSE [cache_hit |-> FALSE, cache_entry |-> PyNone]

\* an admission whose threshold tier serves the last entry of the result
AdmitServesLast(lookup, prompt) ==
    LET exact == {i \in DOMAIN lookup : lookup[i].prompt_text = prompt}
    IN IF exact # {}
       THEN [cache_hit |-> TRUE, cache_entry |-> lookup[Max(exact)]]
       ELSE IF lookup # <<>> /\ lookup[1].vector_score >= VECTOR_SCORE_THRESHOLD
       THEN [cache_hit |-> TRUE, cache_entry |-> lookup[Len(lookup)]]
       ELSE [cache_hit |-> FALSE, cache_entry |-> PyNone]

\* an admission whose threshold tier forgets the threshold
AdmitAnyFirst(lookup, prompt) ==
    LET exact == {i \in DOMAIN lookup : lookup[i].prompt_text = prompt}
    IN IF exact # {}
       THEN [cache_hit |-> TRUE, cache_entry |-> lookup[Max(exact)]]
       ELSE IF lookup # <<>>
       THEN [cache_hit |-> TRUE, cache_entry |-> lookup[1]]
       ELSE [cache_hit |-> FALSE, cache_entry |-> PyNone]

\* lines 115-136: the entry admitted from a lookup result, if any
Admit(lookup, prompt) ==
    LET exact == {i \in DOMAIN lookup : lookup[i].prompt_text = prompt}
    IN IF exact # {}
       THEN [cache_hit |-> TRUE, cache_entry |-> lookup[Max(exact)]]
       ELSE IF lookup # <<>> /\ lookup[1].vector_score >= VECTOR_SCORE_THRESHOLD
       THEN [cache_hit |-> TRUE, cache_entry |-> lookup[1]]
       ELSE [cache_hit |-> FALSE, cache_entry |-> PyNone]

\* a hit response that leaves the stored SQL as the JSON text it was stored as
HitResponseRawSql(entry) ==
    [statusCode |-> 200,
     body |-> [response |-> entry.text_response,
               query |-> entry.sql_statement,
               query_results |-> entry.query_results,
               column_names |-> entry.column_names,
               cache_id |-> entry.id],
     headers |-> JsonHeaders]

\* lines 177-192: the response served from an admitted entry
HitResponse(entry) ==
    LET stored == entry.sql_statement
        sql_statement == IF Truthy(stored) /\ StartsWithBracket(stored)
                            /\ JsonLoads(stored) # PyNone
                         THEN JsonLoads(stored)
                         ELSE stored
    IN [statusCode |-> 200,
        body |-> [response |-> entry.text_response,
                  query |-> sql_statement,
                  query_results |-> entry.query_results,
                  column_names |-> entry.column_names,
                  cache_id |-> entry.id],
        headers |-> JsonHeaders]

\* nothing races, indexes or parses
\* streamlit/app.py lines 126-130: a new session of the chat client
SessionAtRest ==
    /\ messages = <<>>
    /\ session_context = <<>>
    /\ payload = PyNone

AsideAtRest ==
    /\ SessionAtRest
    /\ writers = <<>>
    /\ commands = <<>>
    /\ embeddings_table = {}
    /\ runs = <<>>
    /\ retrieval = PyNone
    /\ reply_text = <<>>
    /\ parsed = PyNone
    /\ function_input = PyNone
    /\ function_output = PyNone

\* no request of the sequential prompt handler has been received
RequestAtRest ==
    /\ reqCount = 0
    /\ pc = "idle"
    /\ event = [query |-> "p1", conversation_context |-> <<>>]
    /\ follow_up_check = PyNone
    /\ t2sql_conn = "None"
    /\ embeddings_for_prompt = 0
    /\ failed = {}
    /\ cache_lookup = <<>>
    /\ cache_entry = PyNone
    /\ scehma_context_text = ""
    /\ sql = PyNone
    /\ sql_result = ExecuteResult("no_description")
    /\ response = PyNone
    /\ outcome = NoOutcome
    /\ calls = <<>>

\* a process with valid configured names and an empty cache store
ProcessAtRest ==
    /\ RDS_DATABASE_NAME = NamePostgres
    /\ RDS_SCHEMA = NamePublic
    /\ valkey_client = "None"
    /\ db_secret = "None"
    /\ store = [k \in Keys |-> NoEntry]
    /\ now = 0

Init ==
    /\ AsideAtRest
    /\ RDS_DATABASE_NAME \in DbNames
    /\ RDS_SCHEMA \in SchemaNames
    /\ valkey_client = "None"
    /\ db_secret = "None"
    /\ store = [k \in Keys |-> NoEntry]
    /\ now = 0
    /\ reqCount = 0
    /\ pc = "idle"
    /\ event = [query |-> "p1", conversation_context |-> <<>>]
    /\ follow_up_check = PyNone
    /\ t2sql_conn = "None"
    /\ embeddings_for_prompt = 0
    /\ failed = {}
    /\ cache_lookup = <<>>
    /\ cache_entry = PyNone
    /\ scehma_context_text = ""
    /\ sql = PyNone
    /\ sql_result = ExecuteResult("no_description")
    /\ response = PyNone
    /\ outcome = NoOutcome
    /\ calls = <<>>

Called(name) == calls' = Append(calls, name)

\* a raise that leaves the handler without running the finally block
RaiseSkippingFinally(name, error) ==
    /\ outcome' = Raised(error)
    /\ failed' = failed \cup {name}
    /\ pc' = "done"

\* the call `name` raises `error` and nothing in the handler catches it: the
\* finally block runs if the try block had been entered
Raise(name, error) ==
    /\ outcome' = Raised(error)
    /\ failed' = failed \cup {name}
    /\ pc' = IF t2sql_conn = "open" THEN "finally" ELSE "done"

\* a return statement of the handler
Return(value) ==
    /\ outcome' = Returned(value)
    /\ failed' = failed
    /\ pc' = IF t2sql_conn = "open" THEN "finally" ELSE "done"

\* the handler goes on to its next call
Goto(next) ==
    /\ outcome' = outcome
    /\ failed' = failed
    /\ pc' = next

\* a handler that classifies every request
FirstStepAlwaysClassifies(conversation_context) == "follow_up"
\* line 86: "if conversation_context:" guards the follow-up classification
FirstStep(conversation_context) ==
    IF conversation_context # <<>> THEN "follow_up" ELSE "validate"

\* the handler is invoked with an event (lines 79-86), in the process that
\* served the previous request or in a fresh one, whose module-level services
\* are constructed again (lines 53-57)
Receive ==
    /\ pc \in {"idle", "done"}
    /\ reqCount < MaxRequests
    /\ reqCount' = reqCount + 1
    /\ \E p \in Prompts, c \in Contexts :
          /\ event' = [query |-> p, conversation_context |-> c]
          /\ pc' = FirstStep(c)
    /\ \E fresh \in BOOLEAN :
          /\ valkey_client' = IF fresh THEN "None" ELSE valkey_client
          /\ db_secret' = IF fresh THEN "None" ELSE db_secret
    /\ follow_up_check' = PyNone
    /\ t2sql_conn' = "None"
    /\ embeddings_for_prompt' = 0
    /\ cache_lookup' = <<>>
    /\ cache_entry' = PyNone
    /\ scehma_context_text' = ""
    /\ sql' = PyNone
    /\ sql_result' = ExecuteResult("no_description")
    /\ response' = PyNone
    /\ failed' = {}
    /\ outcome' = NoOutcome
    /\ calls' = <<>>
    /\ UNCHANGED <<aside, config, store, now>>

\* line 95: follow_up_check["is_follow_up"] of what the classification
\* returned: the subscript raises on None and on a dict without the key
IsFollowUpRead(check) ==
    IF "is_follow_up" \in DOMAIN check THEN "ok"
    ELSE IF DOMAIN check = DOMAIN PyNone THEN "TypeError"
    ELSE "KeyError"

\* lines 92-99: the follow-up classification and its early return
FollowUpCheck ==
    /\ pc = "follow_up"
    /\ Called("check_if_follow_up_question")
    /\ \E raises \in BOOLEAN, reply \in FollowUpTexts :
          IF raises
          THEN /\ follow_up_check' = follow_up_check
               /\ Raise("check_if_follow_up_question", "BedrockError")
          ELSE /\ follow_up_check' = check_if_follow_up_question(reply)
               /\ IF IsFollowUpRead(follow_up_check') # "ok"
                  THEN Raise("lambda_handler", IsFollowUpRead(follow_up_check'))
                  ELSE IF ~follow_up_check'.is_follow_up
                  THEN Goto("validate")
                  ELSE IF "answer" \notin DOMAIN follow_up_check'
                  THEN Raise("lambda_handler", "KeyError")
                  ELSE Return(FollowUpResponse(follow_up_check'))
    /\ UNCHANGED <<aside, config, process, store, now, reqCount, event, t2sql_conn,
                   embeddings_for_prompt, cache_lookup, cache_entry,
                   scehma_context_text, sql, sql_result, response>>

\* line 101: the test the handler makes of the two configured names
NamesRejected(database_name, schema) ==
    ~(is_valid_postgres_identifier(database_name) \/ is_valid_postgres_identifier(schema))

\* lines 101-102: the configured names are checked before the secret is read
Validate ==
    /\ pc = "validate"
    /\ IF NamesRejected(RDS_DATABASE_NAME, RDS_SCHEMA)
       THEN Raise("lambda_handler", "InvalidName")
       ELSE Goto("set_secret")
    /\ UNCHANGED <<aside, config, process, store, now, reqCount, event, t2sql_conn, locals, calls>>

\* line 103: pg.set_secret reads the secret or raises
SetSecret ==
    /\ pc = "set_secret"
    /\ Called("set_secret")
    /\ \E ok \in BOOLEAN :
          IF ok
          THEN /\ db_secret' = "secret"
               /\ Goto("connect_to_db")
          ELSE /\ db_secret' = db_secret
               /\ Raise("set_secret", "SecretError")
    /\ UNCHANGED <<aside, config, valkey_client, store, now, reqCount, event, t2sql_conn, locals>>

\* a connection step that goes on without a connection when connecting fails
ConnectToDbFallback ==
    /\ pc = "connect_to_db"
    /\ Called("connect_to_db")
    /\ \E ok \in BOOLEAN :
          /\ t2sql_conn' = IF ok /\ db_secret # "None" THEN "open" ELSE t2sql_conn
          /\ failed' = IF ok /\ db_secret # "None" THEN failed
                       ELSE failed \cup {"connect_to_db"}
          /\ outcome' = outcome
          /\ pc' = "get_embedding"
    /\ UNCHANGED <<aside, config, process, store, now, reqCount, event, locals>>

\* lines 104-106: pg.connect_to_db returns a connection or raises
ConnectToDb ==
    /\ pc = "connect_to_db"
    /\ Called("connect_to_db")
    /\ \E ok \in BOOLEAN :
          IF ok /\ db_secret # "None"
          THEN /\ t2sql_conn' = "open"
               /\ Goto("get_embedding")
          ELSE /\ t2sql_conn' = t2sql_conn
               /\ Raise("connect_to_db", "ConnectionError")
    /\ UNCHANGED <<aside, config, process, store, now, reqCount, event, locals>>

\* an embedding call that raises
EmbeddingFailure == -1

\* line 112: embed.get_embedding returns a vector or raises
GetEmbedding ==
    /\ pc = "get_embedding"
    /\ Called("get_embedding")
    /\ \E reply \in Embeddings \cup {EmbeddingFailure} :
          IF reply = EmbeddingFailure
          THEN /\ embeddings_for_prompt' = embeddings_for_prompt
               /\ Raise("get_embedding", "EmbeddingError")
          ELSE /\ embeddings_for_prompt' = reply
               /\ Goto("connect_to_cluster")
    /\ UNCHANGED <<aside, config, process, store, now, reqCount, event, t2sql_conn,
                   follow_up_check, cache_lookup, cache_entry, scehma_context_text,
                   sql, sql_result, response>>

\* what connecting to the cluster may do: succeed, fail in the client's
\* constructor, or fail in ping/setup_index after the client was assigned
ClusterReplies == {"ok", "constructor_error", "ping_error"}

\* line 113: cache.connect_to_cluster logs a failure and returns
ConnectToCluster ==
    /\ pc = "connect_to_cluster"
    /\ Called("connect_to_cluster")
    /\ \E reply \in ClusterReplies :
          /\ valkey_client' = IF reply = "constructor_error" THEN valkey_client ELSE "client"
          /\ failed' = IF reply = "ok" THEN failed
                       ELSE failed \cup {"connect_to_cluster", reply}
    /\ outcome' = outcome
    /\ pc' = "search"
    /\ UNCHANGED <<aside, config, db_secret, store, now, reqCount, event, t2sql_conn, locals>>

\* a lookup that renews the expiry of the entry it serves
SearchRenewing ==
    /\ pc = "search"
    /\ Called("search")
    /\ IF valkey_client = "None"
       THEN /\ Raise("search", "AttributeError")
            /\ UNCHANGED <<cache_lookup, cache_entry, store>>
       ELSE \E ok \in BOOLEAN :
               IF ~ok
               THEN /\ Raise("search", "ValkeyError")
                    /\ UNCHANGED <<cache_lookup, cache_entry, store>>
               ELSE \E found \in SearchResults(store, now, embeddings_for_prompt, TOP_K) :
                       LET admitted == Admit(found, event.query)
                       IN /\ cache_lookup' = found
                          /\ cache_entry' = admitted.cache_entry
                          /\ IF admitted.cache_hit
                             THEN /\ Return(HitResponse(admitted.cache_entry))
                                  /\ store' = Expire(store, now, admitted.cache_entry.id.v)
                             ELSE /\ Goto("compare_embeddings")
                                  /\ store' = store
    /\ UNCHANGED <<aside, config, process, now, reqCount, event, t2sql_conn,
                   follow_up_check, embeddings_for_prompt, scehma_context_text, sql,
                   sql_result, response>>

\* lines 114-136 and 176-192: cache.search, the admission of an entry and,
\* on a hit, the response served from it
Search ==
    /\ pc = "search"
    /\ Called("search")
    /\ IF valkey_client = "None"
       THEN /\ Raise("search", "AttributeError")
            /\ UNCHANGED <<cache_lookup, cache_entry>>
       ELSE \E ok \in BOOLEAN :
               IF ~ok
               THEN /\ Raise("search", "ValkeyError")
                    /\ UNCHANGED <<cache_lookup, cache_entry>>
               ELSE \E found \in SearchResults(store, now, embeddings_for_prompt, TOP_K) :
                       LET admitted == Admit(found, event.query)
                       IN /\ cache_lookup' = found
                          /\ cache_entry' = admitted.cache_entry
                          /\ IF admitted.cache_hit
                             THEN Return(HitResponse(admitted.cache_entry))
                             ELSE Goto("compare_embeddings")
    /\ UNCHANGED <<aside, config, process, store, now, reqCount, event, t2sql_conn,
                   follow_up_check, embeddings_for_prompt, scehma_context_text, sql,
                   sql_result, response>>

\* lines 143-150: index.compare_embeddings embeds the prompt again and reads
\* the schema index, or raises
CompareEmbeddings ==
    /\ pc = "compare_embeddings"
    /\ calls' = calls \o <<"compare_embeddings", "get_embedding">>
    /\ \E reply \in SchemaTexts \cup {"error"} :
          IF reply = "error"
          THEN /\ scehma_context_text' = scehma_context_text
               /\ Raise("compare_embeddings", "RetrievalError")
          ELSE /\ scehma_context_text' = reply
               /\ Goto("get_sql_from_bedrock")
    /\ UNCHANGED <<aside, config, process, store, now, reqCount, event, t2sql_conn,
                   follow_up_check, embeddings_for_prompt, cache_lookup, cache_entry,
                   sql, sql_result, response>>

\* a generation step that answers a failed call with the error response
GetSqlFromBedrockCatching ==
    /\ pc = "get_sql_from_bedrock"
    /\ calls' = Append(calls, "get_sql_from_bedrock")
    /\ \E raises \in BOOLEAN, reply \in SqlTexts :
          IF raises
          THEN /\ sql' = sql
               /\ outcome' = Returned(NoSqlResponse)
               /\ failed' = failed \cup {"get_sql_from_bedrock"}
               /\ pc' = "finally"
          ELSE /\ sql' = get_sql_from_bedrock(reply)
               /\ outcome' = outcome
               /\ failed' = failed
               /\ pc' = "execute_sql"
    /\ UNCHANGED <<aside, config, process, store, now, reqCount, event, t2sql_conn,
                   follow_up_check, embeddings_for_prompt, cache_lookup, cache_entry,
                   scehma_context_text, sql_result, response>>

\* lines 153-158: text_to_sql.get_sql_from_bedrock and the handler's
\* "if not sql" return
GetSqlFromBedrock ==
    /\ pc = "get_sql_from_bedrock"
    /\ Called("get_sql_from_bedrock")
    /\ \E raises \in BOOLEAN, reply \in SqlTexts :
          IF raises
          THEN /\ sql' = sql
               /\ Raise("get_sql_from_bedrock", "BedrockError")
          ELSE /\ sql' = get_sql_from_bedrock(reply)
               /\ IF ~Truthy(sql')
                  THEN Return(NoSqlResponse)
                  ELSE Goto("execute_sql")
    /\ UNCHANGED <<aside, config, process, store, now, reqCount, event, t2sql_conn,
                   follow_up_check, embeddings_for_prompt, cache_lookup, cache_entry,
                   scehma_context_text, sql_result, response>>

\* an execution step that swallows the error and goes on with no rows
ExecuteSqlSwallowing ==
    /\ pc = "execute_sql"
    /\ Called("execute_sql")
    /\ \E reply \in ExecuteReplies :
          /\ sql_result' = IF sql.t \notin {"tuple", "str"} \/ reply = "error"
                           THEN sql_result ELSE ExecuteResult(reply)
          /\ failed' = IF sql.t \notin {"tuple", "str"} \/ reply = "error"
                       THEN failed \cup {"execute_sql"} ELSE failed
          /\ outcome' = outcome
          /\ pc' = "describe_results_from_query"
    /\ UNCHANGED <<aside, config, process, store, now, reqCount, event, t2sql_conn,
                   follow_up_check, embeddings_for_prompt, cache_lookup, cache_entry,
                   scehma_context_text, sql, response>>

\* line 160: text_to_sql.execute_sql runs the statement; anything that is not
\* a (sql, params) pair or a SQL string is refused by the driver
ExecuteSql ==
    /\ pc = "execute_sql"
    /\ Called("execute_sql")
    /\ \E reply \in ExecuteReplies :
          IF sql.t \notin {"tuple", "str"}
          THEN /\ sql_result' = sql_result
               /\ Raise("execute_sql", "TypeError")
          ELSE IF reply = "error"
          THEN /\ sql_result' = sql_result
               /\ Raise("execute_sql", "DatabaseError")
          ELSE /\ sql_result' = ExecuteResult(reply)
               /\ Goto("describe_results_from_query")
    /\ UNCHANGED <<aside, config, process, store, now, reqCount, event, t2sql_conn,
                   follow_up_check, embeddings_for_prompt, cache_lookup, cache_entry,
                   scehma_context_text, sql, response>>

\* line 166: text_to_sql.describe_results_from_query
DescribeResults ==
    /\ pc = "describe_results_from_query"
    /\ Called("describe_results_from_query")
    /\ \E raises \in BOOLEAN, text_content \in DescriptionTexts :
          IF raises
          THEN /\ response' = response
               /\ Raise("describe_results_from_query", "BedrockError")
          ELSE /\ response' = describe_results_from_query(sql, sql_result, text_content)
               /\ Goto("add")
    /\ UNCHANGED <<aside, config, process, store, now, reqCount, event, t2sql_conn,
                   follow_up_check, embeddings_for_prompt, cache_lookup, cache_entry,
                   scehma_context_text, sql, sql_result>>

\* lines 169-171: the data the handler hands to the cache write
cache_data ==
    [sql_statement |-> sql,
     text_response |-> response.body.response,
     query_results |-> PyRepr(sql_result.results),
     column_names |-> sql_result.column_names,
     schema_text |-> scehma_context_text,
     prompt_text |-> event.query]

\* a handler that returns the description without the cache write
AddToCacheSkipped ==
    /\ pc = "add"
    /\ outcome' = Returned(response)
    /\ pc' = "finally"
    /\ UNCHANGED <<aside, config, process, store, now, reqCount, event, t2sql_conn, locals,
                   failed, calls>>

\* a cache write whose store errors are raised to the handler
AddToCacheRaising ==
    /\ pc = "add"
    /\ Called("add")
    /\ \E reply \in StoreReplies :
          LET added == CacheAdd(store, now, event.query, embeddings_for_prompt,
                                cache_data, "cache", reply)
          IN /\ store' = added.store
             /\ IF reply = "ok" \/ ~Truthy(cache_data.text_response)
                THEN /\ failed' = failed
                     /\ outcome' = Returned(response)
                ELSE /\ failed' = failed \cup {"add", reply}
                     /\ outcome' = Raised("ValkeyError")
    /\ pc' = "finally"
    /\ UNCHANGED <<aside, config, process, now, reqCount, event, t2sql_conn, locals>>

\* lines 169-175: the cache write, then the handler returns the description;
\* a store error is logged by add and recorded in `failed` with its kind
AddToCache ==
    /\ pc = "add"
    /\ Called("add")
    /\ \E reply \in StoreReplies :
          LET added == CacheAdd(store, now, event.query, embeddings_for_prompt,
                                cache_data, "cache", reply)
          IN /\ store' = added.store
             /\ failed' = IF reply = "ok" \/ ~Truthy(cache_data.text_response)
                          THEN failed ELSE failed \cup {"add", reply}
    /\ outcome' = Returned(response)
    /\ pc' = "finally"
    /\ UNCHANGED <<aside, config, process, now, reqCount, event, t2sql_conn, locals>>

\* lines 193-196: the finally block closes the connection, and the handler
\* returns or raises what it had decided
Finally ==
    /\ pc = "finally"
    /\ Called("close")
    /\ t2sql_conn' = "closed"
    /\ pc' = "done"
    /\ UNCHANGED <<aside, config, process, store, now, reqCount, event, locals, failed, outcome>>

\* time passes; the clock is read by the search and by the cache write only,
\* so it is advanced just ahead of them
Tick ==
    /\ pc \in {"search", "add"}
    /\ now + TickSeconds <= MaxTime
    /\ now' = now + TickSeconds
    /\ UNCHANGED <<aside, config, process, store, reqCount, pc, event, t2sql_conn, locals,
                   failed, outcome, calls>>

Next ==
    \/ Receive
    \/ FollowUpCheck
    \/ Validate
    \/ SetSecret
    \/ ConnectToDb
    \/ GetEmbedding
    \/ ConnectToCluster
    \/ Search
    \/ CompareEmbeddings
    \/ GetSqlFromBedrock
    \/ ExecuteSql
    \/ DescribeResults
    \/ AddToCache
    \/ Finally
    \/ Tick

Spec == Init /\ [][Next]_vars

-----------------------------------------------------------------------------
(* Concurrent requests with one prompt: each runs lambda_handler in its own *)
(* process; the cache store is all they share, one command at a time        *)

Writers == {1, 2}
RacePrompt == "p1"
\* answers the description call may give to the racing requests
RaceAnswers == DescriptionTexts \cup {"another answer"}

\* lines 169-171 of prompt_handler.py for the racing request w
race_data(w) ==
    [sql_statement |-> PyTuple(<<PyStr("SELECT 1"), PyList(<<>>)>>),
     text_response |-> writers[w].response.body.response,
     query_results |-> PyRepr(PyList(<<"row1">>)),
     column_names |-> PyList(<<"c1">>),
     schema_text |-> "table t1",
     prompt_text |-> RacePrompt]

InitRace ==
    /\ ProcessAtRest
    /\ SessionAtRest
    /\ RequestAtRest
    /\ writers = [w \in Writers |->
                    [pc |-> "search", vector |-> 0, response |-> PyNone,
                     ret |-> "pending", outcome |-> NoOutcome]]
    /\ commands = <<>>
    /\ embeddings_table = {}
    /\ runs = <<>>
    /\ retrieval = PyNone
    /\ reply_text = <<>>
    /\ parsed = PyNone
    /\ function_input = PyNone
    /\ function_output = PyNone

\* lines 112-136 and 176-192: the embedding, the lookup and the admission
RaceSearch(w) ==
    /\ writers[w].pc = "search"
    /\ \E v \in Embeddings :
          \E found \in SearchResults(store, now, v, TOP_K) :
             LET admitted == Admit(found, RacePrompt)
             IN writers' = [writers EXCEPT ![w] =
                   [@ EXCEPT !.vector = v,
                             !.pc = IF admitted.cache_hit THEN "hit" ELSE "describe",
                             !.outcome = IF admitted.cache_hit
                                         THEN Returned(HitResponse(admitted.cache_entry))
                                         ELSE @]]
    /\ UNCHANGED <<session, config, process, store, now, request, commands, indexing,
                   retrieval, parsing, applying>>

\* lines 143-166: retrieval, generation, execution and description, none of
\* which touches the cache store
RaceDescribe(w) ==
    /\ writers[w].pc = "describe"
    /\ \E text_content \in RaceAnswers :
          writers' = [writers EXCEPT ![w] =
             [@ EXCEPT !.response =
                          describe_results_from_query(
                              PyTuple(<<PyStr("SELECT 1"), PyList(<<>>)>>),
                              ExecuteResult("rows"), text_content),
                       !.pc = "add"]]
    /\ UNCHANGED <<session, config, process, store, now, request, commands, indexing,
                   retrieval, parsing, applying>>

\* cache.py lines 181-188: add refuses an empty answer, else issues hset
RaceHSet(w) ==
    /\ writers[w].pc = "add"
    /\ IF ~Truthy(race_data(w).text_response)
       THEN /\ writers' = [writers EXCEPT ![w] =
                  [@ EXCEPT !.ret = "False", !.pc = "done",
                            !.outcome = Returned(writers[w].response)]]
            /\ UNCHANGED <<store, commands>>
       ELSE \E ok \in BOOLEAN :
               IF ok
               THEN /\ store' = HSet(store, now, HashKey("cache", RacePrompt),
                                     Mapping(writers[w].vector, race_data(w)))
                    /\ commands' = Append(commands, [writer |-> w, command |-> "hset"])
                    /\ writers' = [writers EXCEPT ![w].pc = "expire"]
               ELSE /\ writers' = [writers EXCEPT ![w] =
                          [@ EXCEPT !.ret = "False", !.pc = "done",
                                    !.outcome = Returned(writers[w].response)]]
                    /\ UNCHANGED <<store, commands>>
    /\ UNCHANGED <<session, config, process, now, request, indexing, retrieval, parsing, applying>>

\* cache.py lines 190-203: add issues expire and returns; prompt_handler.py
\* line 175 returns the description
RaceExpire(w) ==
    /\ writers[w].pc = "expire"
    /\ \E ok \in BOOLEAN :
          IF ok
          THEN /\ store' = Expire(store, now, HashKey("cache", RacePrompt))
               /\ commands' = Append(commands, [writer |-> w, command |-> "expire"])
               /\ writers' = [writers EXCEPT ![w] =
                     [@ EXCEPT !.ret = "True", !.pc = "done",
                               !.outcome = Returned(writers[w].response)]]
          ELSE /\ writers' = [writers EXCEPT ![w] =
                     [@ EXCEPT !.ret = "False", !.pc = "done",
                               !.outcome = Returned(writers[w].response)]]
               /\ UNCHANGED <<store, commands>>
    /\ UNCHANGED <<session, config, process, now, request, indexing, retrieval, parsing, applying>>

\* time passes between two steps of the racing requests
RaceTick ==
    /\ \E w \in Writers : writers[w].pc \notin {"done", "hit"}
    /\ now + TickSeconds <= MaxTime
    /\ now' = now + TickSeconds
    /\ UNCHANGED <<session, config, process, store, request, aside>>

NextRace ==
    \/ \E w \in Writers : RaceSearch(w)
    \/ \E w \in Writers : RaceDescribe(w)
    \/ \E w \in Writers : RaceHSet(w)
    \/ \E w \in Writers : RaceExpire(w)
    \/ RaceTick

SpecRace == InitRace /\ [][NextRace]_vars

-----------------------------------------------------------------------------
(* The parsing of the generation model's replies, over every text of       *)
(* bounded length                                                           *)

FollowUpReplies == Texts(FollowUpTokens, MaxFollowUpLen)
SqlReplies == Texts(SqlTokens, MaxSqlLen)

InitParse ==
    /\ ProcessAtRest
    /\ SessionAtRest
    /\ RequestAtRest
    /\ writers = <<>>
    /\ commands = <<>>
    /\ embeddings_table = {}
    /\ runs = <<>>
    /\ retrieval = PyNone
    /\ reply_text \in FollowUpReplies \cup SqlReplies
    /\ parsed = PyNone
    /\ function_input = PyNone
    /\ function_output = PyNone

\* prompt_handler.py lines 92-95: the classification parses the reply and the
\* handler reads is_follow_up from what it returned
ParseFollowUp ==
    /\ parsed = PyNone
    /\ reply_text \in FollowUpReplies
    /\ parsed' = [function |-> "check_if_follow_up_question",
                  result |-> check_if_follow_up_question(reply_text),
                  read |-> IsFollowUpRead(check_if_follow_up_question(reply_text))]
    /\ UNCHANGED <<session, config, process, store, now, request, racing, indexing,
                   retrieval, reply_text, applying>>

\* prompt_handler.py line 153: the SQL request parses the reply
ParseSql ==
    /\ parsed = PyNone
    /\ reply_text \in SqlReplies
    /\ parsed' = [function |-> "get_sql_from_bedrock",
                  result |-> get_sql_from_bedrock(reply_text),
                  read |-> "ok"]
    /\ UNCHANGED <<session, config, process, store, now, request, racing, indexing,
                   retrieval, reply_text, applying>>

NextParse ==
    \/ ParseFollowUp
    \/ ParseSql

SpecParse == InitParse /\ [][NextParse]_vars

-----------------------------------------------------------------------------
(* Schema retrieval: DataIndexerService.compare_embeddings over every       *)
(* content of the embeddings table                                         *)

\* embeddings of the indexed tables and of the prompt; from 0 the others are
\* 0.846, 0.10 and 0.05 similar
IndexEmbeddings == {0, 154, 900, 950}
TableNames == {"t1", "t2", "t3", "t4", "t5"}
\* custom_resource/index.py lines 93-105: a row of the embeddings table
EmbeddingRow(tbl, emb) ==
    [database_name |-> "db1", schema_name |-> "public", table_name |-> tbl,
     embedding_text |-> "columns", embedding_hash |-> "h",
     embedding |-> emb]
IndexContents ==
    UNION {{{EmbeddingRow(tbl, f[tbl]) : tbl \in S} : f \in [S -> IndexEmbeddings]}
              : S \in {S \in SUBSET TableNames : Cardinality(S) <= MaxRows}}
\* values of the top_k argument; 5 is its default
DefaultTopK == 5
TopKs == {1, 3, DefaultTopK}

\* line 274: 1 - (embedding <=> %s::vector), in thousandths
Similarity(row, user_embedding) == 1000 - Dist(row.embedding, user_embedding)
\* line 284: float(row[4]) > 0.10, in thousandths
SimilarityFloor == 100
AtOrAboveFloor(similarity) == similarity >= SimilarityFloor
AboveFloor(similarity) == similarity > SimilarityFloor

\* line 276: ORDER BY similarity DESC; rows of equal similarity come in any
\* order
RECURSIVE OrderBySimilarityDesc(_, _)
OrderBySimilarityDesc(rows, user_embedding) ==
    IF rows = {} THEN {<<>>}
    ELSE UNION {
           {<<row>> \o rest :
               rest \in OrderBySimilarityDesc(rows \ {row}, user_embedding)} :
           row \in {r \in rows :
                      \A q \in rows : Similarity(r, user_embedding)
                                          >= Similarity(q, user_embedding)}}
\* line 277: LIMIT %s
Limit(ordered, top_k) == SubSeq(ordered, 1, Min(top_k, Len(ordered)))
\* lines 281-285: the list comprehension over cur.fetchall()
ResultList(fetched, user_embedding) ==
    LET Kept(row) == AboveFloor(Similarity(row, user_embedding))
        kept == SelectSeq(fetched, Kept)
    IN  [i \in 1..Len(kept) |->
            [database |-> kept[i].database_name, schema |-> kept[i].schema_name,
             table |-> kept[i].table_name,
             embedding_text |-> kept[i].embedding_text,
             similarity |-> Similarity(kept[i], user_embedding)]]
\* lines 250-286: the lists compare_embeddings can return
compare_embeddings(rows, user_embedding, top_k) ==
    {ResultList(Limit(ordered, top_k), user_embedding) :
        ordered \in OrderBySimilarityDesc(rows, user_embedding)}

InitRetrieval ==
    /\ ProcessAtRest
    /\ SessionAtRest
    /\ RequestAtRest
    /\ writers = <<>>
    /\ commands = <<>>
    /\ runs = <<>>
    /\ reply_text = <<>>
    /\ parsed = PyNone
    /\ function_input = PyNone
    /\ function_output = PyNone
    /\ embeddings_table \in IndexContents
    /\ \E user_embedding \in IndexEmbeddings, top_k \in TopKs :
          retrieval = [pc |-> "called", user_embedding |-> user_embedding,
                       top_k |-> top_k, results |-> <<>>]

\* lines 267-286: the prompt is embedded, the query runs, the list is returned
RetrievalReturns ==
    /\ retrieval.pc = "called"
    /\ \E results \in compare_embeddings(embeddings_table,
                                          retrieval.user_embedding, retrieval.top_k) :
          retrieval' = [retrieval EXCEPT !.pc = "returned", !.results = results]
    /\ UNCHANGED <<session, config, process, store, now, request, racing, indexing, parsing, applying>>

\* lines 287-289: get_embedding or the query raises; logged and raised again
RetrievalRaises ==
    /\ retrieval.pc = "called"
    /\ retrieval' = [retrieval EXCEPT !.pc = "raised"]
    /\ UNCHANGED <<session, config, process, store, now, request, racing, indexing, parsing, applying>>

NextRetrieval ==
    \/ RetrievalReturns
    \/ RetrievalRaises

SpecRetrieval == InitRetrieval /\ [][NextRetrieval]_vars

-----------------------------------------------------------------------------
(* The indexer: runs of indexer_handler.lambda_handler that reach           *)
(* store_embeddings, each on its own connection to the one embeddings table *)

Runs == {1, 2}
\* indexer.py lines 183-189 and 206-208: the table definitions of the
\* database, the same for every run while the schema does not change
IndexedMetadata ==
    << [database |-> "db1", schema |-> "public", table |-> "t1",
        embedding_text |-> "columns of t1", embedding_hash |-> "h1", embedding |-> 0],
       [database |-> "db1", schema |-> "public", table |-> "t2",
        embedding_text |-> "columns of t2", embedding_hash |-> "h2", embedding |-> 154] >>
\* the definition of t1 before its last change
FormerMetadata ==
    [database |-> "db1", schema |-> "public", table |-> "t1",
     embedding_text |-> "former columns of t1", embedding_hash |-> "h0", embedding |-> 900]

\* lines 238-241: the row an INSERT writes, id from the SERIAL column
InsertedRow(id, metadata) ==
    [id |-> id, database_name |-> metadata.database, schema_name |-> metadata.schema,
     table_name |-> metadata.table, embedding_text |-> metadata.embedding_text,
     embedding_hash |-> metadata.embedding_hash, embedding |-> metadata.embedding]
\* custom_resource/index.py line 104: the columns of the UNIQUE constraint
UniqueKey(row) ==
    <<row.database_name, row.schema_name, row.table_name, row.embedding_hash>>
KeyOf(metadata) ==
    <<metadata.database, metadata.schema, metadata.table, metadata.embedding_hash>>
\* a store_embeddings without the existence check
NeverExists(rows, metadata) == FALSE
\* lines 228-233: the SELECT and cur.fetchone() is not None, over the
\* committed rows
EmbeddingExists(rows, metadata) ==
    \E row \in rows : UniqueKey(row) = KeyOf(metadata)

\* tables the runs may find: any of the rows of an earlier run
InitialRows ==
    {InsertedRow(1, FormerMetadata), InsertedRow(2, IndexedMetadata[1]),
     InsertedRow(3, IndexedMetadata[2])}
\* rows written and not yet committed
PendingRows == UNION {{runs[r].pending[k] : k \in DOMAIN runs[r].pending} : r \in Runs}
\* nextval of the id sequence: a number no row has had
NextId == 1 + Max({3} \cup {row.id : row \in embeddings_table \cup PendingRows})
RunsCompleted == {r \in Runs : runs[r].pc = "closed" /\ runs[r].error = "None"}

InitIndexer ==
    /\ ProcessAtRest
    /\ SessionAtRest
    /\ RequestAtRest
    /\ writers = <<>>
    /\ commands = <<>>
    /\ retrieval = PyNone
    /\ reply_text = <<>>
    /\ parsed = PyNone
    /\ function_input = PyNone
    /\ function_output = PyNone
    /\ embeddings_table \in SUBSET InitialRows
    /\ runs = [r \in Runs |->
                 [pc |-> "idle", i |-> 1, pending |-> <<>>, error |-> "None",
                  inserts |-> 0, after |-> {}, found |-> {}, embedded |-> <<>>]]

\* indexer_handler.py lines 66-73: the run connects and reads the metadata
IndexerStart(r) ==
    /\ runs[r].pc = "idle"
    /\ runs' = [runs EXCEPT ![r].pc = "generate_embeddings",
                            ![r].after = RunsCompleted,
                            ![r].found = embeddings_table]
    /\ UNCHANGED <<session, config, process, store, now, request, racing, retrieval, parsing, applying,
                   embeddings_table>>

\* indexer.py lines 206-209, called at indexer_handler.py line 74: one
\* get_embedding call for each table definition of the metadata
generate_embeddings(metadata) ==
    [k \in DOMAIN metadata |-> metadata[k].table]
IndexerGenerateEmbeddings(r) ==
    /\ runs[r].pc = "generate_embeddings"
    /\ runs' = [runs EXCEPT ![r].pc = "select",
                            ![r].embedded = generate_embeddings(IndexedMetadata)]
    /\ UNCHANGED <<session, config, process, store, now, request, racing, retrieval, parsing, applying,
                   embeddings_table>>

\* indexer.py lines 220-235: the next table definition and its existence
\* check; the loop ends after the last one
IndexerSelect(r) ==
    /\ runs[r].pc = "select"
    /\ runs' = [runs EXCEPT ![r] =
                   IF runs[r].i > Len(IndexedMetadata)
                   THEN [@ EXCEPT !.pc = "finally"]
                   ELSE IF EmbeddingExists(embeddings_table, IndexedMetadata[runs[r].i])
                   THEN [@ EXCEPT !.i = @ + 1]
                   ELSE [@ EXCEPT !.pc = "insert"]]
    /\ UNCHANGED <<session, config, process, store, now, request, racing, retrieval, parsing, applying,
                   embeddings_table>>

\* lines 238-241: the INSERT.  A committed row with the same key makes it
\* raise UniqueViolation, which nothing catches; a row with the same key that
\* another transaction has not yet committed makes it wait
IndexerInsert(r) ==
    /\ runs[r].pc = "insert"
    /\ LET metadata == IndexedMetadata[runs[r].i]
       IN  /\ \A row \in PendingRows : UniqueKey(row) # KeyOf(metadata)
           /\ runs' = [runs EXCEPT ![r] =
                          IF \E row \in embeddings_table : UniqueKey(row) = KeyOf(metadata)
                          THEN [@ EXCEPT !.pc = "finally", !.error = "UniqueViolation"]
                          ELSE [@ EXCEPT !.pc = "commit",
                                         !.pending = <<InsertedRow(NextId, metadata)>>]]
    /\ UNCHANGED <<session, config, process, store, now, request, racing, retrieval, parsing, applying,
                   embeddings_table>>

\* line 243: conn.commit()
IndexerCommit(r) ==
    /\ runs[r].pc = "commit"
    /\ embeddings_table' = embeddings_table \cup {runs[r].pending[1]}
    /\ runs' = [runs EXCEPT ![r].pc = "select", ![r].i = @ + 1,
                            ![r].pending = <<>>, ![r].inserts = @ + 1]
    /\ UNCHANGED <<session, config, process, store, now, request, racing, retrieval, parsing, applying>>

\* indexer_handler.py lines 77-80: the finally block closes the connection
IndexerClose(r) ==
    /\ runs[r].pc = "finally"
    /\ runs' = [runs EXCEPT ![r].pc = "closed"]
    /\ UNCHANGED <<session, config, process, store, now, request, racing, retrieval, parsing, applying,
                   embeddings_table>>

NextIndexer ==
    \/ \E r \in Runs : IndexerStart(r)
    \/ \E r \in Runs : IndexerGenerateEmbeddings(r)
    \/ \E r \in Runs : IndexerSelect(r)
    \/ \E r \in Runs : IndexerInsert(r)
    \/ \E r \in Runs : IndexerCommit(r)
    \/ \E r \in Runs : IndexerClose(r)

SpecIndexer == InitIndexer /\ [][NextIndexer]_vars

-----------------------------------------------------------------------------
(* Identifier validation over every name of bounded length and the names    *)
(* of the tests                                                             *)

NameAlphabet == {"a", "s", "A", "S", "p", "g", "_", "1", "$", "-", "\n", "é"}
Repeat(c, n) == [i \in 1..n |-> c]
NamedNames ==
    { <<>>, Name123bad, NameSelect, NamePostgres, NamePublic,
      <<"p","g","_","i","n","t","e","r","n","a","l">>,
      <<"s","e","l","e","c","t">>, <<"S","E","L","E","C","T">>,
      <<"s","e","l","e","c","t","\n">>,
      <<"v","a","l","i","d","_","n","a","m","e">>,
      <<"v","a","l","i","d","_","n","a","m","e","\n">>,
      <<"_","o","k","1","2","3">>,
      Repeat("a", 63), Repeat("a", 64), Repeat("a", 62) \o <<"\n">> }
IdentifierInputs ==
    NamedNames \cup UNION {[1..m -> NameAlphabet] : m \in 0..MaxNameLen}

OthersAtRest(spec_init) ==
    /\ ProcessAtRest
    /\ SessionAtRest
    /\ RequestAtRest
    /\ writers = <<>>
    /\ commands = <<>>
    /\ embeddings_table = {}
    /\ runs = <<>>
    /\ retrieval = PyNone
    /\ reply_text = <<>>
    /\ parsed = PyNone
    /\ spec_init

InitValidate ==
    OthersAtRest(/\ function_input \in {[name |-> name] : name \in IdentifierInputs}
         /\ function_output = PyNone)

\* prompt_handler.py line 101: a call of is_valid_postgres_identifier
ValidateIdentifier ==
    /\ function_output = PyNone
    /\ function_output' =
          [function |-> "is_valid_postgres_identifier",
           value |-> is_valid_postgres_identifier(function_input.name)]
    /\ UNCHANGED <<session, config, process, store, now, request, racing, indexing, retrieval,
                   parsing, function_input>>

NextValidate == ValidateIdentifier

SpecValidate == InitValidate /\ [][NextValidate]_vars

-----------------------------------------------------------------------------
(* The serialisation of a vector for the cache: CacheService._vector_to_bytes *)

\* float values and their IEEE 754 single-precision encoding, least
\* significant byte first; 1e40 is beyond the single-precision range and is
\* stored as infinity
FloatValues == {"0.0", "1.0", "0.5", "-2.0", "1e40"}
Float32Bytes(x) ==
    CASE x = "0.0" -> <<0, 0, 0, 0>>
      [] x = "1.0" -> <<0, 0, 128, 63>>
      [] x = "0.5" -> <<0, 0, 0, 63>>
      [] x = "-2.0" -> <<0, 0, 0, 192>>
      [] x = "1e40" -> <<0, 0, 128, 127>>
\* the double-precision encoding of the same values
Float64Bytes(x) ==
    CASE x = "0.0" -> <<0, 0, 0, 0, 0, 0, 0, 0>>
      [] x = "1.0" -> <<0, 0, 0, 0, 0, 0, 240, 63>>
      [] x = "0.5" -> <<0, 0, 0, 0, 0, 0, 224, 63>>
      [] x = "-2.0" -> <<0, 0, 0, 0, 0, 0, 0, 192>>
      [] x = "1e40" -> <<165, 92, 195, 241, 41, 99, 61, 72>>
\* array("f", ...): the item of one element
ArrayItem(x) == Float32Bytes(x)
\* cache.py line 228: array("f", vector).tobytes(), the items one after
\* another (computed by halves)
RECURSIVE vector_to_bytes(_)
vector_to_bytes(vector) ==
    IF vector = <<>> THEN <<>>
    ELSE IF Len(vector) = 1 THEN ArrayItem(vector[1])
    ELSE LET half == Len(vector) \div 2
         IN  vector_to_bytes(SubSeq(vector, 1, half))
                \o vector_to_bytes(SubSeq(vector, half + 1, Len(vector)))

LongVectorLen == 1000
VectorInputs ==
    UNION {[1..m -> FloatValues] : m \in 0..MaxVectorLen}
       \cup {Repeat(x, LongVectorLen) : x \in FloatValues}

InitVector ==
    OthersAtRest(/\ function_input \in {[vector |-> vector] : vector \in VectorInputs}
         /\ function_output = PyNone)

\* cache.py lines 118 and 172: a call of _vector_to_bytes
VectorToBytes ==
    /\ function_output = PyNone
    /\ function_output' =
          [function |-> "_vector_to_bytes",
           value |-> vector_to_bytes(function_input.vector)]
    /\ UNCHANGED <<session, config, process, store, now, request, racing, indexing, retrieval,
                   parsing, function_input>>

NextVector == VectorToBytes

SpecVector == InitVector /\ [][NextVector]_vars

-----------------------------------------------------------------------------
(* execute_sql: services/text_to_sql.py lines 358-394 *)

\* what a cursor answers to one execute: it raises, or it succeeds with a
\* description (None when the statement produced no result set, else one
\* (name, type_code) entry per column) and the rows fetchall() returns
ColumnEntries == {<<"name", "text">>, <<"age", "int4">>}
Descriptions ==
    {q \in UNION {[1..m -> ColumnEntries] : m \in 1..MaxColumns} :
        \A i, j \in DOMAIN q : i # j => q[i] # q[j]}
RowValues == {"row1", "row2"}
RowLists == UNION {[1..m -> RowValues] : m \in 0..MaxResultRows}
CursorReplies ==
    {[raises |-> TRUE, has_description |-> FALSE, description |-> <<>>, rows |-> <<>>],
     [raises |-> FALSE, has_description |-> FALSE, description |-> <<>>, rows |-> <<>>]}
    \cup {[raises |-> FALSE, has_description |-> TRUE, description |-> d, rows |-> rows] :
             d \in Descriptions, rows \in RowLists}
\* values handed to execute_sql: a SQL string, a (sql, params) pair, and
\* values of other shapes
SqlDataInputs ==
    {PyStr("SELECT 1"),
     PyTuple(<<PyStr("SELECT 1"), PyList(<<>>)>>),
     PyTuple(<<PyStr("SELECT $1"), PyList(<<"x">>)>>),
     PyTuple(<<PyStr("UPDATE t SET a = $1"), PyList(<<"x">>)>>),
     PyTuple(<<PyStr("SELECT 1")>>),
     PyTuple(<<PyStr("SELECT 1"), PyList(<<"x">>), PyList(<<"y">>)>>),
     PyList(<<PyStr("SELECT $1"), PyList(<<"x">>)>>)}

IsPair(sql_data) == sql_data.t = "tuple" /\ Len(sql_data.v) = 2
\* an execute_sql that binds no parameters
StatementWithoutParams(sql_data) ==
    [sql |-> IF IsPair(sql_data) THEN sql_data.v[1] ELSE sql_data,
     params |-> PyList(<<>>)]
\* lines 372-377: the statement and the parameters handed to cursor.execute
Statement(sql_data) ==
    [sql |-> IF IsPair(sql_data) THEN sql_data.v[1] ELSE sql_data,
     params |-> IF IsPair(sql_data) THEN sql_data.v[2] ELSE PyList(<<>>)]
\* line 391: [desc[0] for desc in cursor.description]
ColumnNames(description) == [i \in DOMAIN description |-> description[i][1]]
\* lines 372-394: the statements run on the cursor, and what is raised or
\* returned; the driver refuses a statement that is not a string
execute_sql(sql_data, cursor) ==
    LET statement == Statement(sql_data)
    IN IF statement.sql.t # "str"
       THEN [executed |-> <<statement>>, raised |-> "TypeError",
             results |-> PyNone, column_names |-> PyNone]
       ELSE IF cursor.raises
       THEN [executed |-> <<statement>>, raised |-> "DatabaseError",
             results |-> PyNone, column_names |-> PyNone]
       ELSE IF cursor.has_description /\ cursor.description # <<>>
       THEN [executed |-> <<statement>>, raised |-> "None",
             results |-> PyList(cursor.rows),
             column_names |-> PyList(ColumnNames(cursor.description))]
       ELSE [executed |-> <<statement>>, raised |-> "None",
             results |-> PyList(<<>>), column_names |-> PyList(<<>>)]

InitExecute ==
    OthersAtRest(/\ function_input \in {[sql_data |-> d, cursor |-> c] :
                                           d \in SqlDataInputs, c \in CursorReplies}
         /\ function_output = PyNone)

\* prompt_handler.py line 160: a call of execute_sql
ExecuteStatement ==
    /\ function_output = PyNone
    /\ function_output' =
          [function |-> "execute_sql",
           value |-> execute_sql(function_input.sql_data, function_input.cursor)]
    /\ UNCHANGED <<session, config, process, store, now, request, racing, indexing, retrieval,
                   parsing, function_input>>

NextExecute == ExecuteStatement

SpecExecute == InitExecute /\ [][NextExecute]_vars

-----------------------------------------------------------------------------
(* Chat client: streamlit/app.py *)

PayloadKeys == {"query", "conversation_context"}
ChatInputs == {"q1"}
\* what the API answers to one request: the post raises, or the body's
\* response is a text, or it is not a text (a JSON null)
ResponseTexts == {<<"n", "o">>, <<"$", "5">>}
ApiReplies ==
    {[kind |-> "error", response |-> <<>>, query |-> "No SQL generated", results |-> 0],
     [kind |-> "null", response |-> <<>>, query |-> "FOLLOW_UP", results |-> 0]}
    \cup {[kind |-> "text", response |-> text, query |-> "SELECT 1", results |-> 1] :
             text \in ResponseTexts}
FallbackText == <<"r", "e", "p", "h", "r", "a", "s", "e">>
\* line 204: response.replace("$", r"\$")
RECURSIVE EscapeDollars(_)
EscapeDollars(text) ==
    IF text = <<>> THEN <<>>
    ELSE (IF Head(text) = "$" THEN <<"\\", "$">> ELSE <<Head(text)>>)
            \o EscapeDollars(Tail(text))
UserTurn(user_input) == [role |-> "user", content |-> user_input]
AssistantTurn(resp_text, query, results) ==
    [role |-> "assistant", content |-> resp_text, sql_query |-> query,
     results_summary |-> results]
\* line 223: conversation_context[-MAX_CONTEXT_LENGTH * 2:]
LastTurns(context, n) ==
    IF Len(context) > n THEN SubSeq(context, Len(context) - n + 1, Len(context))
    ELSE context
\* lines 158-167: the payload send_message posts; len(payload) is the number
\* of keys of the dict
SentPayload(message_prompt, context) ==
    IF Cardinality(PayloadKeys) > MAX_PAYLOAD_SIZE
    THEN [query |-> message_prompt, conversation_context |-> <<>>]
    ELSE [query |-> message_prompt, conversation_context |-> context]

InitChat ==
    /\ ProcessAtRest
    /\ RequestAtRest
    /\ writers = <<>>
    /\ commands = <<>>
    /\ embeddings_table = {}
    /\ runs = <<>>
    /\ retrieval = PyNone
    /\ reply_text = <<>>
    /\ parsed = PyNone
    /\ function_input = PyNone
    /\ function_output = PyNone
    /\ SessionAtRest

\* lines 192-223: one chat input: the user turn is appended, the request is
\* sent with the session's context, and when the response is a text the
\* assistant turn is appended and the context cut to its last turns; a
\* response that is not a text raises at line 204, which ends the script run
ChatInput(user_input) ==
    /\ Len(messages) + 2 <= MaxMessages
    /\ \E reply \in ApiReplies :
          LET sent == Append(session_context, UserTurn(user_input))
              context == IF Cardinality(PayloadKeys) > MAX_PAYLOAD_SIZE THEN <<>> ELSE sent
              response_text == IF reply.kind = "error" THEN FallbackText
                               ELSE reply.response
              resp_text == EscapeDollars(response_text)
          IN /\ payload' = SentPayload(user_input, sent)
             /\ IF reply.kind = "null"
                THEN /\ messages' = Append(messages, UserTurn(user_input))
                     /\ session_context' = context
                ELSE /\ messages' = messages \o
                           <<UserTurn(user_input),
                             [role |-> "assistant", response |-> resp_text,
                              query |-> reply.query]>>
                     /\ session_context' =
                           LastTurns(Append(context,
                                            AssistantTurn(resp_text, reply.query, reply.results)),
                                     MAX_CONTEXT_LENGTH * 2)
    /\ UNCHANGED <<config, process, store, now, request, racing, indexing, retrieval,
                   parsing, applying>>

\* lines 143-146: the clear button
ClearChat ==
    /\ messages # <<>>
    /\ messages' = <<>>
    /\ session_context' = <<>>
    /\ UNCHANGED <<config, process, store, now, request, racing, indexing, retrieval,
                   parsing, applying, payload>>

NextChat ==
    \/ \E user_input \in ChatInputs : ChatInput(user_input)
    \/ ClearChat

SpecChat == InitChat /\ [][NextChat]_vars

-----------------------------------------------------------------------------
(* Properties of the prompt handler *)

Made(name) == \E i \in DOMAIN calls : calls[i] = name
Count(name) == Cardinality({i \in DOMAIN calls : calls[i] = name})

\* the search of this request returned a result list
SearchReturned == Made("search") /\ "search" \notin failed
ExactMatches == {i \in DOMAIN cache_lookup : cache_lookup[i].prompt_text = event.query}
\* the handler returned the response of a cache hit on entry e
ServedFrom(e) ==
    /\ outcome.kind = "return"
    /\ outcome.value.statusCode = 200
    /\ outcome.value.body.cache_id = e.id
    /\ outcome.value.body.response = e.text_response
\* the calls of the generation model
BedrockCalls ==
    {"check_if_follow_up_question", "get_sql_from_bedrock", "describe_results_from_query"}
\* the calls of the cache-miss path
MissPathCalls ==
    {"compare_embeddings", "get_sql_from_bedrock", "execute_sql",
     "describe_results_from_query", "add"}

\* C1: a request classified as a follow-up ends at once with a 200 response
\* whose query is the sentinel, whose query_results is empty and whose
\* response is the classification's answer; no secret was read, no database
\* or cache connection opened, no embedding computed, no cache lookup made.
FollowUpAnsweredDirectly ==
    (IsFollowUpRead(follow_up_check) = "ok" /\ follow_up_check.is_follow_up) =>
        /\ pc = "done"
        /\ outcome.kind = "return"
        /\ outcome.value.statusCode = 200
        /\ outcome.value.body.query = PyStr(FollowUpSentinel)
        /\ outcome.value.body.query_results = PyList(<<>>)
        /\ outcome.value.body.response = follow_up_check.answer
        /\ calls = <<"check_if_follow_up_question">>
        /\ t2sql_conn = "None"
FollowUpAnsweredDirectlyWitness ==
    /\ pc = "done"
    /\ IsFollowUpRead(follow_up_check) = "ok"
    /\ follow_up_check.is_follow_up
    /\ follow_up_check.answer = PyStr("a1")
    /\ reqCount = 2

\* C2: when some entry of the lookup result stores the prompt verbatim, the
\* request is a cache hit served from an entry whose prompt_text is the
\* prompt, whatever the scores.
ExactMatchOverride ==
    (SearchReturned /\ ExactMatches # {}) =>
        /\ \E i \in ExactMatches : ServedFrom(cache_lookup[i])
        /\ \A c \in MissPathCalls : ~Made(c)
ExactMatchOverrideWitness ==
    /\ SearchReturned
    /\ Len(cache_lookup) >= 2
    /\ cache_lookup[1].prompt_text # event.query
    /\ cache_lookup[1].vector_score >= VECTOR_SCORE_THRESHOLD
    /\ \E i \in ExactMatches : cache_lookup[i].vector_score < VECTOR_SCORE_THRESHOLD
    /\ pc = "done"
    /\ outcome.kind = "return"

\* C3: with no exact match and a first entry scoring at least 0.85, the
\* request is a cache hit served from that first entry and from no other.
ThresholdAdmission ==
    (/\ SearchReturned
     /\ ExactMatches = {}
     /\ cache_lookup # <<>>
     /\ cache_lookup[1].vector_score >= VECTOR_SCORE_THRESHOLD) =>
        /\ ServedFrom(cache_lookup[1])
        /\ cache_entry = cache_lookup[1]
        /\ \A c \in MissPathCalls : ~Made(c)
ThresholdAdmissionWitness ==
    /\ SearchReturned
    /\ ExactMatches = {}
    /\ Len(cache_lookup) >= 2
    /\ cache_lookup[1].vector_score >= VECTOR_SCORE_THRESHOLD
    /\ cache_lookup[2].id # cache_lookup[1].id
    /\ pc = "done"
    /\ outcome.kind = "return"

\* C4: an empty lookup result, or one with no exact match whose first entry
\* scores below 0.85, sends the handler down the cache-miss path: no entry is
\* served.
MissBelowThreshold ==
    (/\ SearchReturned
     /\ ExactMatches = {}
     /\ (cache_lookup = <<>> \/ cache_lookup[1].vector_score < VECTOR_SCORE_THRESHOLD)) =>
        /\ cache_entry = PyNone
        /\ pc = "compare_embeddings" \/ Made("compare_embeddings")
        /\ \A i \in DOMAIN cache_lookup : ~ServedFrom(cache_lookup[i])
MissBelowThresholdWitness ==
    /\ SearchReturned
    /\ ExactMatches = {}
    /\ cache_lookup # <<>>
    /\ cache_lookup[1].vector_score < VECTOR_SCORE_THRESHOLD
    /\ Made("compare_embeddings")

\* C5: on a cache hit the handler returns the admitted entry's stored answer,
\* SQL (the stored JSON text read back as a list) and results, and makes no
\* retrieval, generation, execution, description or cache-write call.
CacheHitServesStored ==
    (SearchReturned /\ cache_entry # PyNone) =>
        /\ outcome.kind = "return"
        /\ outcome.value.body.response = cache_entry.text_response
        /\ outcome.value.body.query =
              (IF cache_entry.sql_statement.t = "json_str"
               THEN PyList(cache_entry.sql_statement.v)
               ELSE cache_entry.sql_statement)
        /\ outcome.value.body.query_results = cache_entry.query_results
        /\ \A c \in MissPathCalls : ~Made(c)
CacheHitServesStoredWitness ==
    /\ SearchReturned
    /\ cache_entry # PyNone
    /\ cache_entry.prompt_text # event.query
    /\ pc = "done"
    /\ outcome.kind = "return"
    /\ outcome.value.body.query.t = "list"

\* C6: a connection returned by connect_to_db is closed exactly once by the
\* time the handler returns or raises, and never more than once.
ConnectionClosedOnce ==
    /\ Count("close") <= 1
    /\ t2sql_conn = "None" => Count("close") = 0
    /\ pc = "done" => t2sql_conn # "open"
    /\ (pc = "done" /\ Made("connect_to_db") /\ "connect_to_db" \notin failed) =>
          (t2sql_conn = "closed" /\ Count("close") = 1)
ConnectionClosedOnceWitness ==
    /\ pc = "done"
    /\ t2sql_conn = "closed"
    /\ outcome.kind = "raise"
    /\ "execute_sql" \in failed

\* C7: if the configured database name or the configured schema name is not
\* a valid identifier, the secret is never read and no database connection
\* is ever attempted.
InvalidNameStopsHandler ==
    (\/ ~is_valid_postgres_identifier(RDS_DATABASE_NAME)
     \/ ~is_valid_postgres_identifier(RDS_SCHEMA)) =>
        (~Made("set_secret") /\ ~Made("connect_to_db"))

\* C8: when the generation reply has no <sql> block, the handler returns the
\* statusCode 500 response with the "Unable to generate SQL" message.
NoSqlBlockReturns500 ==
    (pc = "done" /\ sql.t = "dict") =>
        /\ outcome.kind = "return"
        /\ outcome.value.statusCode = 500
        /\ outcome.value.body.response = PyStr(NoSqlMessage)

\* C9: when connect_to_cluster fails, the lookup that follows yields an empty
\* result instead of making the request fail.
CacheUnreachableIsMiss ==
    ("connect_to_cluster" \in failed /\ Made("search")) =>
        /\ "search" \notin failed
        /\ cache_lookup = <<>>
        /\ cache_entry = PyNone

\* C10 as claimed: a request in which a generation call failed ends with a
\* returned statusCode 500 response carrying a response message.
BedrockFailureAnswered ==
    (pc = "done" /\ failed \cap BedrockCalls # {}) =>
        /\ outcome.kind = "return"
        /\ outcome.value.statusCode = 500
        /\ "response" \in DOMAIN outcome.value.body

\* C10 as amended: a generation call that fails ends the request with that
\* error raised out of the handler: no response is returned, no later call of
\* the pipeline is made, and a connection the request opened is closed.
BedrockFailurePropagates ==
    (failed \cap BedrockCalls # {}) =>
        /\ outcome = Raised("BedrockError")
        /\ pc \in {"finally", "done"}
        /\ LET made == SelectSeq(calls, LAMBDA c : c # "close")
           IN made[Len(made)] \in failed \cap BedrockCalls
        /\ pc = "done" => t2sql_conn # "open"
BedrockFailurePropagatesWitness ==
    /\ pc = "done"
    /\ "describe_results_from_query" \in failed
    /\ t2sql_conn = "closed"
    /\ outcome = Raised("BedrockError")

\* the key under which the cache keeps the prompt of the request
PromptKey == HashKey("cache", event.query)
\* the lookup of this request returned and the request has not written yet
LookupDone == SearchReturned /\ ~Made("add")

\* C11: while the entry written for a prompt is within 600 seconds of its
\* write, a request with the identical prompt that reaches the lookup is
\* served as a cache hit from an entry storing that prompt.
ExactRepeatIsHit ==
    (/\ LookupDone
     /\ Live(store, now, PromptKey)
     /\ store[PromptKey].expireAt # NoExpiry) =>
        \E i \in ExactMatches : ServedFrom(cache_lookup[i])

\* C12: every entry the store holds carries an expiry, so that none is
\* readable later than 600 seconds after its last write.
StoredEntriesExpire ==
    \A k \in DOMAIN store :
        store[k] # NoEntry =>
            /\ store[k].expireAt # NoExpiry
            /\ store[k].expireAt <= now + EXPIRATION_TIME

\* C13: add with an empty text_response returns False and leaves the store
\* as it was, whatever the store replies; every stored entry has a non-empty
\* text_response.
EmptyAnswerNotStored ==
    /\ \A k \in DOMAIN store : store[k] # NoEntry => Truthy(store[k].text_response)
    /\ \A p \in Prompts, v \in Embeddings, reply \in StoreReplies :
          LET data == [sql_statement |-> PyTuple(<<PyStr("SELECT 1"), PyList(<<>>)>>),
                       text_response |-> PyStr(""),
                       query_results |-> PyRepr(PyList(<<"row1">>)),
                       column_names |-> PyList(<<"c1">>),
                       schema_text |-> "table t1",
                       prompt_text |-> p]
          IN CacheAdd(store, now, p, v, data, "cache", reply) = [ret |-> FALSE, store |-> store]
    /\ (pc \in {"finally", "done"} /\ Made("add") /\ ~Truthy(cache_data.text_response)) =>
          \/ store[PromptKey] = NoEntry
          \/ Truthy(store[PromptKey].text_response)
EmptyAnswerNotStoredWitness ==
    /\ pc = "done"
    /\ Made("add")
    /\ cache_data.text_response = PyStr("")
    /\ "add" \notin failed
    /\ store[PromptKey] = NoEntry
    /\ \E k \in DOMAIN store : store[k] # NoEntry

\* C14: the key is <prefix, digest of the prompt text>; the store holds at
\* most one entry per prompt text, each under the key of its own prompt, and
\* an add whose hset went through leaves under that key exactly the fields
\* of its own mapping, also when the key held an earlier entry.
OneEntryPerPrompt ==
    /\ \A p \in Prompts :
          /\ HashKey("cache", p)[1] = "cache"
          /\ Cardinality({k \in DOMAIN store :
                             store[k] # NoEntry /\ store[k].prompt_text = p}) <= 1
    /\ \A k \in DOMAIN store :
          store[k] # NoEntry => k = HashKey("cache", store[k].prompt_text)
    /\ (/\ pc \in {"finally", "done"}
        /\ Made("add")
        /\ "hset_error" \notin failed
        /\ Truthy(cache_data.text_response)) =>
          LET mapping == Mapping(embeddings_for_prompt, cache_data)
          IN /\ store[PromptKey] # NoEntry
             /\ \A f \in DOMAIN mapping : store[PromptKey][f] = mapping[f]
\* the write went over an entry the store still held: the expire call
\* failed, and yet the entry carries the expiry of the earlier write
OneEntryPerPromptWitness ==
    /\ pc = "done"
    /\ Made("add")
    /\ "expire_error" \in failed
    /\ store[PromptKey] # NoEntry
    /\ store[PromptKey].expireAt # NoExpiry
    /\ store[PromptKey].vector = embeddings_for_prompt

\* both racing requests missed the cache and the add of each returned True
BothWrote ==
    /\ writers # <<>>
    /\ \A w \in Writers : writers[w].pc = "done" /\ writers[w].ret = "True"
\* the request whose hset reached the store last
LastHSet ==
    commands[Max({i \in DOMAIN commands : commands[i].command = "hset"})].writer

ObjectsHeld(text) ==
    {ParseJson(SubSeq(text, i, j)).value :
        i \in 1..Len(text), j \in 1..Len(text)} \ {PyNone}
FollowUpObjectsHeld(text) ==
    {obj \in ObjectsHeld(text) : "is_follow_up" \in DOMAIN obj}
Classified == parsed # PyNone /\ parsed.function = "check_if_follow_up_question"

\* C16: whatever the reply, check_if_follow_up_question returns a record with
\* an is_follow_up field, which the handler reads without error: an object
\* with the is_follow_up key that the reply holds, and {is_follow_up: false,
\* answer: null} when it holds none.
FollowUpCheckTotal ==
    Classified =>
        /\ "is_follow_up" \in DOMAIN parsed.result
        /\ parsed.read = "ok"
        /\ FollowUpObjectsHeld(reply_text) # {} =>
               parsed.result \in FollowUpObjectsHeld(reply_text)
        /\ FollowUpObjectsHeld(reply_text) = {} =>
               parsed.result = [is_follow_up |-> FALSE, answer |-> PyNone]

SqlParsed == parsed # PyNone /\ parsed.function = "get_sql_from_bedrock"
\* the first <sql> block of the reply runs from i to j
FirstSqlBlock(i, j) ==
    /\ i < j
    /\ reply_text[i] = SqlOpen
    /\ reply_text[j] = SqlClose
    /\ \A x \in 1..i-1 : reply_text[x] # SqlOpen
    /\ \A x \in i+1..j-1 : reply_text[x] # SqlClose
\* the first <params> block of the reply runs from i to j
FirstParamsBlock(i, j) ==
    /\ i < j
    /\ reply_text[i] = ParamsOpen
    /\ reply_text[j] = ParamsClose
    /\ \A x \in 1..i-1 :
          reply_text[x] = ParamsOpen => \A y \in x+1..Len(reply_text) : reply_text[y] # ParamsClose
    /\ \A x \in i+1..j-1 : reply_text[x] # ParamsClose

\* C17: for a reply with a <sql> block, get_sql_from_bedrock returns the pair
\* of the first block's content and the parameters: the list the first
\* <params> block spells, the empty list when there is no such block or when
\* its content is no literal; it never returns anything but a pair.
SqlBlockParsed ==
    SqlParsed =>
        \A i, j \in DOMAIN reply_text :
            FirstSqlBlock(i, j) =>
                /\ parsed.result.t = "tuple"
                /\ Len(parsed.result.v) = 2
                /\ parsed.result.v[1] = PyStr(JoinTokens(SubSeq(reply_text, i + 1, j - 1)))
                /\ \A a, b \in DOMAIN reply_text :
                      FirstParamsBlock(a, b) =>
                          parsed.result.v[2] =
                             (IF SubSeq(reply_text, a + 1, b - 1) = <<ListLiteral>>
                              THEN PyList(<<"x">>) ELSE PyList(<<>>))
                /\ (~\E a, b \in DOMAIN reply_text : FirstParamsBlock(a, b)) =>
                      parsed.result.v[2] = PyList(<<>>)
SqlBlockParsedWitness ==
    /\ SqlParsed
    /\ reply_text = <<SqlOpen, "SELECT 1", SqlClose, ParamsOpen, "SELECT 2", ParamsClose>>
    /\ parsed.result = PyTuple(<<PyStr("SELECT 1"), PyList(<<>>)>>)

Retrieved == retrieval.pc = "returned"
\* the indexed tables with similarity above 0.10 to the prompt
Qualifying ==
    {row \in embeddings_table :
        1000 - Dist(row.embedding, retrieval.user_embedding) > 100}

\* C18: compare_embeddings returns at most top_k descriptors, by similarity
\* descending, each strictly above 0.10, and they are the first top_k of the
\* descending ranking of the descriptors above 0.10: as many as there are, up
\* to top_k, and none left out is more similar than one returned.
RetrievalRanksAboveFloor ==
    Retrieved =>
        LET results == retrieval.results
        IN  /\ Len(results) <= retrieval.top_k
            /\ Len(results) = Min(retrieval.top_k, Cardinality(Qualifying))
            /\ \A i \in DOMAIN results :
                  /\ results[i].similarity > 100
                  /\ \E row \in Qualifying :
                        /\ row.table_name = results[i].table
                        /\ results[i].similarity =
                              1000 - Dist(row.embedding, retrieval.user_embedding)
                        /\ results[i].database = row.database_name
                        /\ results[i].schema = row.schema_name
                        /\ results[i].embedding_text = row.embedding_text
            /\ \A i, j \in DOMAIN results :
                  /\ i < j => results[i].similarity >= results[j].similarity
                  /\ i # j => results[i].table # results[j].table
            /\ \A row \in Qualifying :
                  (\A i \in DOMAIN results : results[i].table # row.table_name) =>
                      \A i \in DOMAIN results :
                          results[i].similarity >=
                              1000 - Dist(row.embedding, retrieval.user_embedding)
\* fewer than top_k tables qualify, one lies exactly on the floor
RetrievalRanksAboveFloorWitness ==
    /\ Retrieved
    /\ retrieval.top_k = 3
    /\ Len(retrieval.results) = 2
    /\ Cardinality(embeddings_table) = 5
    /\ \E row \in embeddings_table :
          1000 - Dist(row.embedding, retrieval.user_embedding) = 100

\* the rows of the table for one table definition
RowsFor(metadata) ==
    {row \in embeddings_table :
        /\ row.database_name = metadata.database
        /\ row.schema_name = metadata.schema
        /\ row.table_name = metadata.table
        /\ row.embedding_hash = metadata.embedding_hash}
OneRowPerDefinition ==
    \A k \in DOMAIN IndexedMetadata : Cardinality(RowsFor(IndexedMetadata[k])) = 1
RunOver(r) == runs[r].pc = "closed"

\* C19: a run of store_embeddings that follows a completed run over the same
\* table metadata performs no insert and leaves the table as it found it,
\* with exactly one row per (database, schema, table, content hash).
SecondRunInsertsNothing ==
    \A r \in Runs :
        (RunOver(r) /\ runs[r].after # {}) =>
            /\ runs[r].error = "None"
            /\ runs[r].inserts = 0
            /\ embeddings_table = runs[r].found
            /\ OneRowPerDefinition
\* the first run found an empty table and inserted both rows
SecondRunInsertsNothingWitness ==
    \E r, q \in Runs :
        /\ RunOver(r)
        /\ runs[r].after = {q}
        /\ runs[q].found = {}
        /\ runs[q].inserts = 2
        /\ Cardinality(embeddings_table) = 2

\* C20: however two indexer runs over the same table metadata interleave,
\* once both are over the table has exactly one row per (database, schema,
\* table, content hash) and neither run has failed.
InterleavedRunsBothSucceed ==
    (\A r \in Runs : RunOver(r)) =>
        /\ OneRowPerDefinition
        /\ \A r \in Runs : runs[r].error = "None"

\* C21: a table whose content hash was already stored for the same
\* (database, schema, table) when the run began is not embedded again: the
\* run makes no embedding call for it.
UnchangedTablesNotEmbedded ==
    \A r \in Runs, k \in DOMAIN IndexedMetadata :
        (\E row \in runs[r].found :
            /\ row.database_name = IndexedMetadata[k].database
            /\ row.schema_name = IndexedMetadata[k].schema
            /\ row.table_name = IndexedMetadata[k].table
            /\ row.embedding_hash = IndexedMetadata[k].embedding_hash) =>
                \A c \in DOMAIN runs[r].embedded :
                    runs[r].embedded[c] # IndexedMetadata[k].table

TableOf(row) == <<row.database_name, row.schema_name, row.table_name>>
\* C36: once an indexer run has completed, the embeddings table holds at
\* most one row per (database, schema, table), and the hash of that row is
\* the content hash the table had at the run: no row of a former table
\* definition is left for retrieval to return.
OneCurrentRowPerTable ==
    RunsCompleted # {} =>
        /\ \A row, other \in embeddings_table :
              TableOf(row) = TableOf(other) => row = other
        /\ \A row \in embeddings_table :
              \E k \in DOMAIN IndexedMetadata : UniqueKey(row) = KeyOf(IndexedMetadata[k])

\* a cache hit was served
HitServed == SearchReturned /\ cache_entry # PyNone /\ outcome.kind = "return"

\* C23: on a cache hit the stored JSON strings of a list or tuple
\* sql_statement and of column_names are both parsed back: the response's
\* query and column_names are lists equal to the values that were written.
CacheRecordRoundTrip ==
    HitServed =>
        /\ cache_entry.sql_statement.t = "json_str" =>
              outcome.value.body.query = PyList(cache_entry.sql_statement.v)
        /\ cache_entry.column_names.t = "json_str" =>
              outcome.value.body.column_names = PyList(cache_entry.column_names.v)

BodyFields == {"response", "query", "query_results", "column_names", "cache_id"}
\* C24: every response the handler returns has statusCode 200 or 500, the
\* JSON content-type header and a body with all five fields.
ResponseShape ==
    outcome.kind = "return" =>
        /\ outcome.value.statusCode \in {200, 500}
        /\ outcome.value.headers = JsonHeaders
        /\ BodyFields \subseteq DOMAIN outcome.value.body

Classifications == Count("check_if_follow_up_question")
PastFirstStep == pc \notin {"idle", "follow_up"}
\* C25 as stated: every request, with or without a conversation context,
\* invokes the follow-up classification exactly once, as its first call.
FollowUpCheckAlwaysFirst ==
    PastFirstStep =>
        /\ Classifications = 1
        /\ calls[1] = "check_if_follow_up_question"
\* C25: a request with a conversation context invokes the follow-up
\* classification exactly once, before validation and as its first call; a
\* request without one does not invoke it.
FollowUpCheckFirstWithContext ==
    /\ Classifications <= 1
    /\ (PastFirstStep /\ event.conversation_context # <<>>) =>
          /\ Classifications = 1
          /\ calls[1] = "check_if_follow_up_question"
    /\ event.conversation_context = <<>> => Classifications = 0
FollowUpCheckFirstWithContextWitness ==
    /\ event.conversation_context # <<>>
    /\ Made("search")
    /\ Made("connect_to_db")
    /\ calls[1] = "check_if_follow_up_question"

\* C26: the outcome of a request does not depend on what an earlier request
\* left in the process: when the cache client cannot be constructed in this
\* request the lookup fails as it does in a fresh process, where there is no
\* client, and no earlier client is used.
ProcessStateNotCarriedOver ==
    ("constructor_error" \in failed /\ Made("search")) =>
        outcome = Raised("AttributeError")

\* C27: within one request the embedding provider is invoked at most once.
EmbeddingOncePerRequest == Count("get_embedding") <= 1

IsMissPathCall(name) == name \in MissPathCalls
MissPathOrder ==
    <<"compare_embeddings", "get_sql_from_bedrock", "execute_sql",
      "describe_results_from_query", "add">>
Described ==
    Made("describe_results_from_query") /\ "describe_results_from_query" \notin failed
\* C29: on a miss where generation, execution and description succeed the
\* handler makes the retrieval, generation, execution, description and
\* cache-write calls once each in that order and returns the description;
\* the cache write never comes before execution and description succeeded.
MissPathInOrder ==
    /\ Made("add") =>
          /\ Described
          /\ "execute_sql" \notin failed
          /\ SelectSeq(calls, IsMissPathCall) = MissPathOrder
          /\ outcome = Returned(response)
          /\ response.body.query = sql
    /\ (Described /\ pc \in {"finally", "done"}) => Made("add")
    /\ \A k \in DOMAIN MissPathOrder : Count(MissPathOrder[k]) <= 1
MissPathInOrderWitness ==
    /\ pc = "done"
    /\ Made("add")
    /\ outcome.kind = "return"
    /\ outcome.value.body.response = PyStr("answer")
    /\ Live(store, now, PromptKey)

\* C30: when executing the generated SQL raises, the request fails with that
\* error and makes no second generation or execution call, no description
\* call and no cache write.
ExecutionFailureEndsRequest ==
    "execute_sql" \in failed =>
        /\ outcome.kind = "raise"
        /\ outcome.error \in {"DatabaseError", "TypeError"}
        /\ Count("get_sql_from_bedrock") = 1
        /\ Count("execute_sql") = 1
        /\ ~Made("describe_results_from_query")
        /\ ~Made("add")
ExecutionFailureEndsRequestWitness ==
    /\ "execute_sql" \in failed
    /\ outcome = Raised("DatabaseError")
    /\ pc = "done"
    /\ t2sql_conn = "closed"

AfterConnectionCalls ==
    {"get_embedding", "connect_to_cluster", "search", "compare_embeddings",
     "get_sql_from_bedrock", "execute_sql", "describe_results_from_query", "add"}
\* C31: when reading the secret or connecting to the database fails the
\* request fails, and it makes no embedding call, no cache connection or
\* lookup, no schema retrieval and no SQL generation; those steps are made
\* only once a connection has been opened.
ConnectionFailureEndsRequest ==
    /\ ("set_secret" \in failed \/ "connect_to_db" \in failed) =>
          /\ outcome.kind = "raise"
          /\ outcome.error \in {"SecretError", "ConnectionError"}
          /\ \A c \in AfterConnectionCalls : ~Made(c)
    /\ (\E c \in AfterConnectionCalls : Made(c)) =>
          /\ t2sql_conn \in {"open", "closed"}
          /\ Count("set_secret") = 1
          /\ Count("connect_to_db") = 1
ConnectionFailureEndsRequestWitness ==
    /\ "connect_to_db" \in failed
    /\ db_secret = "secret"
    /\ outcome = Raised("ConnectionError")
    /\ pc = "done"

\* C32: when the store fails at the entry write or at the expiry of
\* CacheService.add, add returns False without raising and the cache-miss
\* request still returns its statusCode 200 description response.
StoreFailureInAddIsSwallowed ==
    /\ pc = "add" =>
          \A reply \in {"hset_error", "expire_error"} :
              ~CacheAdd(store, now, event.query, embeddings_for_prompt,
                        cache_data, "cache", reply).ret
    /\ "add" \in failed =>
          /\ outcome = Returned(response)
          /\ response.statusCode = 200
          /\ response.body.response = cache_data.text_response
          /\ Count("describe_results_from_query") = 1
StoreFailureInAddIsSwallowedWitness ==
    /\ "add" \in failed
    /\ "expire_error" \in failed
    /\ pc = "done"
    /\ outcome.kind = "return"
    /\ outcome.value.statusCode = 200
    /\ outcome.value.body.response = PyStr("answer")

\* C35: a request answered as a follow-up or served as a cache hit leaves
\* every entry and every expiry of the cache as it was: only the cache write
\* that ends a resolved cache miss changes the store, and a hit does not
\* extend the lifetime of the entry it serves.
OnlyMissWritesCache ==
    [][/\ store' # store =>
            /\ pc = "add"
            /\ cache_entry = PyNone
            /\ \A c \in MissPathCalls \ {"add"} : Made(c)
            /\ "hset_error" \notin failed'
       /\ pc \in {"follow_up", "search"} => store' = store]_vars
OnlyMissWritesCacheWitness ==
    /\ pc = "done"
    /\ SearchReturned
    /\ cache_entry # PyNone
    /\ ServedFrom(cache_entry)
    /\ now = TickSeconds
    /\ Live(store, now, cache_entry.id.v)
    /\ store[cache_entry.id.v].expireAt = EXPIRATION_TIME

\* C37: an entry admitted by the vector-similarity tier (no entry of the
\* lookup stores the prompt verbatim) has an unrounded similarity, 1000 minus
\* its distance in thousandths, of at least 850.
BelowThresholdNeverAdmitted ==
    (/\ SearchReturned
     /\ ExactMatches = {}
     /\ cache_entry # PyNone
     /\ ~Made("add")) =>
        1000 - Dist(embeddings_for_prompt, store[cache_entry.id.v].vector)
            >= 10 * VECTOR_SCORE_THRESHOLD

Validated == function_output # PyNone
\* the identifier rule in words
StartsWithPg(name) == Len(name) >= 3 /\ name[1] = "p" /\ name[2] = "g" /\ name[3] = "_"
WellFormedIdentifier(name) ==
    /\ name # <<>>
    /\ name[1] \in Letters \cup {"_"}
    /\ \A i \in DOMAIN name : i > 1 => name[i] \in Letters \cup Digits \cup {"_", "$"}
    /\ ~StartsWithPg(name)
    /\ Utf8Len(name) <= 63
    /\ Lower(name) \notin POSTGRES_RESERVED_WORDS

\* C22: is_valid_postgres_identifier(name) is true exactly when name starts
\* with a letter or underscore, continues only with letters, digits,
\* underscore or '$', does not start with pg_, has at most 63 bytes and its
\* lower-cased form is no reserved word.
IdentifierRuleExact ==
    Validated =>
        function_output.value = WellFormedIdentifier(function_input.name)

\* C38: every name is_valid_postgres_identifier accepts consists only of
\* letters, digits, underscore and '$'; no accepted name holds a newline or
\* other white space.
AcceptedNamesHaveIdentifierCharactersOnly ==
    (Validated /\ function_output.value) =>
        \A i \in DOMAIN function_input.name :
            function_input.name[i] \in Letters \cup Digits \cup {"_", "$"}

Executed == function_output # PyNone
\* C33: execute_sql runs exactly one statement on the connection, with the
\* bound parameters when its input is a (sql, params) pair and with an empty
\* parameter list when its input is a SQL string; when it returns, it returns
\* all rows and the column names in cursor order if the statement produced a
\* result set, and two empty sequences if not.
ExecuteSqlRunsOneStatement ==
    Executed =>
        LET sql_data == function_input.sql_data
            cursor == function_input.cursor
            out == function_output.value
        IN /\ Len(out.executed) = 1
           /\ IsPair(sql_data) =>
                 /\ out.executed[1].sql = sql_data.v[1]
                 /\ out.executed[1].params = sql_data.v[2]
           /\ sql_data.t = "str" =>
                 /\ out.executed[1].sql = sql_data
                 /\ out.executed[1].params = PyList(<<>>)
           /\ (out.raised = "None" /\ cursor.has_description) =>
                 /\ out.results = PyList(cursor.rows)
                 /\ Len(out.column_names.v) = Len(cursor.description)
                 /\ \A i \in DOMAIN cursor.description :
                       out.column_names.v[i] = cursor.description[i][1]
           /\ (out.raised = "None" /\ ~cursor.has_description) =>
                 /\ out.results = PyList(<<>>)
                 /\ out.column_names = PyList(<<>>)
ExecuteSqlRunsOneStatementWitness ==
    /\ Executed
    /\ function_input.sql_data = PyTuple(<<PyStr("SELECT $1"), PyList(<<"x">>)>>)
    /\ function_output.value.executed =
          <<[sql |-> PyStr("SELECT $1"), params |-> PyList(<<"x">>)]>>
    /\ function_output.value.results = PyList(<<"row1", "row2">>)
    /\ function_output.value.column_names = PyList(<<"age", "name">>)

\* C34: every request the chat client sends carries a conversation_context
\* of at most 2 x MAX_CONTEXT_LENGTH turns.
SentContextBounded ==
    payload # PyNone =>
        Len(payload.conversation_context) <= 2 * MAX_CONTEXT_LENGTH

Serialised == function_output # PyNone
\* C28: the byte string _vector_to_bytes returns is exactly 4 times as long
\* as the vector has elements.
FourBytesPerElement ==
    Serialised =>
        Len(function_output.value) = 4 * Len(function_input.vector)
FourBytesPerElementWitness ==
    /\ Serialised
    /\ Len(function_input.vector) = 3
    /\ Len(function_output.value) = 12

TypeOK ==
    /\ pc \in {"idle", "follow_up", "validate", "set_secret", "connect_to_db",
               "get_embedding", "connect_to_cluster", "search", "compare_embeddings",
               "get_sql_from_bedrock", "execute_sql", "describe_results_from_query",
               "add", "finally", "done"}
    /\ valkey_client \in {"None", "client"}
    /\ db_secret \in {"None", "secret"}
    /\ t2sql_conn \in {"None", "open", "closed"}
    /\ reqCount \in 0..MaxRequests
    /\ now \in 0..MaxTime

====
